---- MODULE Spec2Model ----
(***************************************************************************)
(* stormtrooper: the conversation orchestrator (internal/agent), the       *)
(* interactive bridge (internal/tui/bridge.go) and the Bubble Tea front    *)
(* end (internal/tui/app.go) as one state machine.                         *)
(*                                                                         *)
(* Two specifications share the orchestrator's actions:                    *)
(*   Spec       the interactive program: App.Init, App.Update, the         *)
(*              commands it returns (run as goroutines by the Bubble Tea   *)
(*              runtime) and the agent goroutines started by runAgent;     *)
(*   SpecAgent  the orchestrator driven through its API (agent.New, Send   *)
(*              with a cancellable context), wired either to buffers and   *)
(*              the line-prompt Checker or to the bridge writers and the   *)
(*              PermissionInterceptor, one Send at a time.                 *)
(*                                                                         *)
(* Rendering state of the widgets (viewport, spinner, glamour renderer,    *)
(* layout sizes) is left out; the chat's streaming buffer and message      *)
(* list, the input's disabled flag and text, and the sidebar's busy flag   *)
(* and tool list are kept.                                                 *)
(***************************************************************************)
EXTENDS Integers, Sequences, FiniteSets, TLC

\* DeltaAccumulator and NewDeltaAccumulator: toolCalls is the map by index
NewDeltaAccumulator == [role |-> "", content |-> "", toolCalls |-> <<>>]

\* a ToolEventWriter nothing was written to
IdleWriter ==
    [pc |-> "idle", text |-> "", pos |-> 0, writes |-> 0, buf |-> "", events |-> <<>>]

\* the state outside a run of the spawn tool
IdleSpawn ==
    [pc |-> "idle", mode |-> "", params |-> [valid |-> FALSE, Task |-> ""],
     cancelled |-> FALSE,
     parent |-> [permission |-> "", stdout |-> "", stderr |-> "", history |-> <<>>],
     child |-> [pc |-> "none", permission |-> "", stdout |-> "", stderr |-> "",
                history |-> <<>>, round |-> 0, ntok |-> 0],
     outputBuf |-> "", ch |-> <<>>, osStdout |-> "", osStderr |-> "",
     bridge |-> [events |-> <<>>, buf |-> ""], result |-> "", err |-> "", asked |-> <<>>]

\* NewRegistry
NewRegistry == [tools |-> <<>>, order |-> <<>>]

\* the state outside the construction of a registry
IdleRegistry ==
    [pc |-> "idle", r |-> NewRegistry, calls |-> 0, panic |-> "", registered |-> <<>>,
     last |-> [op |-> "", arg |-> <<>>, val |-> <<>>]]

\* the state outside a streamed completion
IdleStream ==
    [pc |-> "idle", body |-> <<>>, readErr |-> FALSE, n |-> 0, acc |-> NewDeltaAccumulator,
     cur |-> <<>>, stdout |-> "", order |-> <<>>, msg |-> <<>>, err |-> "",
     history |-> <<>>, dispatch |-> <<>>, sendErr |-> ""]

\* ---------------------------------------------------------------- bounds
MaxTurns == 2      \* Send calls (SendMsg commands the input box produces)
MaxRounds == 2     \* completion requests per Send
MaxTokens == 1     \* visible content deltas the model streams, over all responses
MaxCalls == 2      \* tool calls the model asks for, over all responses
MaxText == 1       \* characters typed into the input box before Enter

\* A run of the interactive program is explored within one of these budgets:
\* several turns (which may overlap) whose responses carry no tool calls, or
\* one turn with tool calls.
Scenarios ==
    {[turns |-> MaxTurns, calls |-> 0, tokens |-> MaxTokens],
     [turns |-> 1, calls |-> MaxCalls, tokens |-> MaxTokens]}

\* The orchestrator driven through its API runs its Sends one after the other.
AgentScenario == [turns |-> MaxTurns, calls |-> MaxCalls, tokens |-> MaxTokens]

\* ------------------------------------------------------ program constants
EventsCap == 256   \* make(chan AgentEvent, 256)
MaxPreviewArgs == 200

\* -------------------------------------------------------------- strings
\* strings.HasPrefix
HasPrefix(s, p) == Len(s) >= Len(p) /\ SubSeq(s, 1, Len(p)) = p

\* strings.TrimPrefix
TrimPrefix(s, p) == IF HasPrefix(s, p) THEN SubSeq(s, Len(p) + 1, Len(s)) ELSE s

\* strings.Contains
Contains(s, sub) ==
    \E i \in 1..(Len(s) - Len(sub) + 1) : SubSeq(s, i, i + Len(sub) - 1) = sub

\* bytes.IndexByte(buf, '\n'), 1-based; 0 when there is none
IndexNewline(s) ==
    IF \E i \in 1..Len(s) : SubSeq(s, i, i) = "\n"
    THEN CHOOSE i \in 1..Len(s) :
            /\ SubSeq(s, i, i) = "\n"
            /\ \A j \in 1..(i - 1) : SubSeq(s, j, j) # "\n"
    ELSE 0

IsSpace(c) == c \in {" ", "\n", "\t", "\r"}

\* strings.TrimSpace
TrimSpace(s) ==
    LET idx == {i \in 1..Len(s) : ~IsSpace(SubSeq(s, i, i))}
    IN  IF idx = {} THEN ""
        ELSE LET lo == CHOOSE i \in idx : \A j \in idx : i <= j
                 hi == CHOOSE i \in idx : \A j \in idx : i >= j
             IN  SubSeq(s, lo, hi)

\* ------------------------------------------------------------- registry
PermissionAuto == "PermissionAuto"
PermissionPrompt == "PermissionPrompt"

\* Registry.tools after registration: one auto-allow and one
\* requires-approval tool (the mock tools of the agent tests).
RegistryTools == [read_file |-> PermissionAuto, shell_exec |-> PermissionPrompt]

NoTool == "nil"

\* Registry.Get: the tool's permission tier, nil when the name is absent
Get(name) == IF name \in DOMAIN RegistryTools THEN RegistryTools[name] ELSE NoTool

\* names the model may ask for: the registered ones and an unregistered one
ToolNames == {"read_file", "shell_exec", "nonexistent_tool"}

\* the argument payload of every modelled call
CallArgs == "{}"

\* ---------------------------------------------------------------- state
VARIABLES
    app,        \* App: agentBusy, focus, permReq, quit
    input,      \* InputModel: disabled, text
    sidebar,    \* SidebarModel: agentBusy, toolCalls
    chat,       \* ChatModel: streaming, messages
    wfe,        \* WaitForEvent commands blocked on the channel receive
    msgs,       \* messages computed by commands, not yet handled by Update
    nSent,      \* SendMsg commands produced by the input box so far
    events,     \* Bridge.events, the buffered channel
    nEvents,    \* events written to the channel so far
    werr,       \* ToolEventWriter.buf
    respCh,     \* acknowledgment channels by id: their buffered content
    idCounter,  \* idCounter of generateID
    agent,      \* Agent: permission, stdout, stderr, history
    gor,        \* goroutines running Agent.Send, by turn
    outBuf,     \* stdout and stderr when they are buffers
    env,        \* SpecAgent's caller: the request it received and holds
    log,        \* observations: checks, execs, acknowledgment traffic
    budget,     \* the scenario the run is explored in
    stream,     \* one streamed completion: the body read, the accumulator, the output
    registry,     \* a tool registry under construction: tools, order, the calls made
    spawn,      \* one run of the spawn tool: parent, child, the process streams
    writer      \* one byte stream written to a ToolEventWriter in pieces

vars == <<app, input, sidebar, chat, wfe, msgs, nSent, events, nEvents, werr,
          respCh, idCounter, agent, gor, outBuf, env, log, budget, stream, registry, spawn, writer>>

appVars == <<app, input, sidebar, chat, wfe, msgs, nSent, budget, stream, registry, spawn, writer>>

Turns == 1..MaxTurns

NoReq == [ID |-> 0]

\* --------------------------------------------------------------- events
TokenMsg(c) == [type |-> "TokenMsg", Content |-> c]
ToolStartMsg(n) == [type |-> "ToolStartMsg", Name |-> n, Args |-> ""]
SubAgentSpawnMsg(t) == [type |-> "SubAgentSpawnMsg", Task |-> t]
SubAgentDoneMsg == [type |-> "SubAgentDoneMsg"]
PermissionRequestMsg(id, tool, preview, ch) ==
    [type |-> "PermissionRequestMsg", ID |-> id, ToolName |-> tool,
     Preview |-> preview, Response |-> ch]
SendMsg(n) == [type |-> "SendMsg", Text |-> n]
AgentDoneMsg(g, err) == [type |-> "AgentDoneMsg", turn |-> g, Error |-> err]

\* generateID
generateID(n) == "perm-" \o ToString(n)

\* ToolEventWriter.parseLine: the events one line produces (none or one)
parseLine(raw) ==
    LET line == TrimSpace(raw)
    IN  IF line = "" THEN <<>>
        ELSE IF HasPrefix(line, "[tool] ")
        THEN LET rest == TrimPrefix(line, "[tool] ")
             IN  IF Contains(rest, ": permission denied") THEN <<>>
                 ELSE IF HasPrefix(rest, "Unknown tool:") THEN <<>>
                 ELSE <<ToolStartMsg(rest)>>
        ELSE IF HasPrefix(line, "[agent] Spawning sub-agent: ")
        THEN <<SubAgentSpawnMsg(TrimPrefix(line, "[agent] Spawning sub-agent: "))>>
        ELSE IF line = "[agent] Sub-agent completed"
        THEN <<SubAgentDoneMsg>>
        ELSE <<>>

\* the loop of ToolEventWriter.Write over the buffer: the buffer left and the
\* events of the complete lines, in line order
RECURSIVE DrainLines(_)
DrainLines(b) ==
    LET idx == IndexNewline(b)
    IN  IF idx = 0 THEN [buf |-> b, evs |-> <<>>]
        ELSE LET r == DrainLines(SubSeq(b, idx + 1, Len(b)))
             IN  [buf |-> r.buf, evs |-> parseLine(SubSeq(b, 1, idx - 1)) \o r.evs]

\* a Write that parses its argument and forgets what is left over
ToolEventWriterWrite_DropsPartial(buf, p) ==
    [buf |-> "", evs |-> DrainLines(buf \o p).evs]

\* ToolEventWriter.Write
ToolEventWriterWrite(buf, p) == DrainLines(buf \o p)

\* an event on the channel with the position it was written at and the turn
\* whose goroutine wrote it (both are observations, not fields of the event)
Tagged(evs, n, g) == [i \in 1..Len(evs) |-> [seq |-> n + i, turn |-> g, ev |-> evs[i]]]

\* fmt.Fprint(a.stdout, c): EventWriter.Write, or the buffer of a test
StdoutWrite(g, c) ==
    IF agent.stdout = "EventWriter"
    THEN /\ Len(events) < EventsCap
         /\ events' = events \o Tagged(<<TokenMsg(c)>>, nEvents, g)
         /\ nEvents' = nEvents + 1
         /\ UNCHANGED <<werr, outBuf>>
    ELSE /\ outBuf' = [outBuf EXCEPT !.stdout = @ \o c]
         /\ UNCHANGED <<events, nEvents, werr>>

\* fmt.Fprintf(a.stderr, p): ToolEventWriter.Write, or the buffer of a test
StderrWrite(g, p) ==
    IF agent.stderr = "ToolEventWriter"
    THEN LET r == ToolEventWriterWrite(werr, p)
         IN  /\ Len(events) + Len(r.evs) <= EventsCap
             /\ events' = events \o Tagged(r.evs, nEvents, g)
             /\ nEvents' = nEvents + Len(r.evs)
             /\ werr' = r.buf
             /\ UNCHANGED outBuf
    ELSE /\ outBuf' = [outBuf EXCEPT !.stderr = @ \o p]
         /\ UNCHANGED <<events, nEvents, werr>>

NoOutput == UNCHANGED <<events, nEvents, werr, outBuf>>

\* ---------------------------------------------------------------- agent
UserMessage(text) ==
    [Role |-> "user", Content |-> text, ToolCalls |-> <<>>, ToolCallID |-> 0, Name |-> ""]
AssistantMessage(content, calls) ==
    [Role |-> "assistant", Content |-> content, ToolCalls |-> calls, ToolCallID |-> 0,
     Name |-> ""]
ToolMessage(tc, result) ==
    [Role |-> "tool", Content |-> result, ToolCalls |-> <<>>, ToolCallID |-> tc.ID,
     Name |-> tc.Name]

\* truncateArgs
truncateArgs(s, maxLen) == IF Len(s) <= maxLen THEN s ELSE SubSeq(s, 1, maxLen) \o "..."

\* the generic preview of executeTool (the modelled tools have no Previewer)
Preview(tc) == tc.Name \o "(" \o truncateArgs(tc.Arguments, MaxPreviewArgs) \o ")"

\* a result text for an unknown tool that leaves the name out
UnknownToolResult_NoName(name) == "Unknown tool"

\* the result texts of executeTool
UnknownToolResult(name) == "Unknown tool: " \o name
PermissionDeniedResult == "Permission denied by user"
ToolErrorResult(err) == "Tool error: " \o err
\* what the modelled tools return
ToolOutput(name) == "ok " \o name
ToolFailure(name) == name \o " failed"

\* the content fragment of the k-th visible delta of a response
TokenText(k) == SubSeq("abcdefgh", k, k)

IdleGor == [pc |-> "idle", ctx |-> "Background", cancelled |-> FALSE, at |-> "", round |-> 0,
            ntok |-> 0, content |-> "", calls |-> <<>>, i |-> 0, ch |-> 0, err |-> ""]

\* a goroutine is inside Agent.Send
InSend(g) == gor[g].pc \notin {"idle", "returned", "done"}

Running == ~app.quit

\* an append that rotates the oldest message out of the history
HistoryAfter_DropsOldest(g, m) ==
    IF agent.history = <<>> THEN {<<m>>} ELSE {Append(Tail(agent.history), m)}

\* a.history = append(a.history, m). Two Sends running on one Agent race on the
\* slice: the append of one may overwrite the element the other just appended.
HistoryAfter(g, m) ==
    IF (\E o \in Turns \ {g} : InSend(o)) /\ Len(agent.history) > 0
    THEN {Append(agent.history, m),
          Append(SubSeq(agent.history, 1, Len(agent.history) - 1), m)}
    ELSE {Append(agent.history, m)}

AppendHistory(g, m) ==
    \E h \in HistoryAfter(g, m) : agent' = [agent EXCEPT !.history = h]

\* Agent.Send: the user message is appended, then the loop runs
Send(g) ==
    /\ Running
    /\ gor[g].pc = "Send"
    /\ AppendHistory(g, UserMessage("msg"))
    /\ gor' = [gor EXCEPT ![g].pc = "loop"]
    /\ NoOutput
    /\ UNCHANGED <<appVars, respCh, idCounter, env, log>>

\* ctx.Err() of a cancelled context
CtxErr == "context canceled"

\* Agent.loop, top of an iteration: ctx.Err() is checked
LoopCancelled(g) ==
    /\ Running
    /\ gor[g].pc = "loop"
    /\ gor[g].cancelled
    /\ gor' = [gor EXCEPT ![g].pc = "returned", ![g].err = "agent cancelled: " \o CtxErr]
    /\ NoOutput
    /\ UNCHANGED <<appVars, respCh, idCounter, agent, env, log>>

\* Agent.loop sending its request without looking at the context
LoopRequest_IgnoresCtx(g) ==
    /\ Running
    /\ gor[g].pc = "loop"
    /\ gor[g].round < MaxRounds
    /\ gor' = [gor EXCEPT ![g].pc = "stream", ![g].round = @ + 1, ![g].ntok = 0,
                          ![g].content = ""]
    /\ NoOutput
    /\ UNCHANGED <<appVars, respCh, idCounter, agent, env, log>>

\* Agent.loop: the request is built from the history and sent
LoopRequest(g) ==
    /\ Running
    /\ gor[g].pc = "loop"
    /\ ~gor[g].cancelled
    /\ gor[g].round < MaxRounds
    /\ gor' = [gor EXCEPT ![g].pc = "stream", ![g].round = @ + 1, ![g].ntok = 0,
                          ![g].content = ""]
    /\ NoOutput
    /\ UNCHANGED <<appVars, respCh, idCounter, agent, env, log>>

\* the display callback of Agent.loop on a delta with content and no tool calls
StreamToken(g) ==
    /\ Running
    /\ gor[g].pc = "stream"
    /\ log.nTokens < budget.tokens
    /\ LET c == TokenText(gor[g].ntok + 1)
       IN  /\ StdoutWrite(g, c)
           /\ gor' = [gor EXCEPT ![g].ntok = @ + 1, ![g].content = @ \o c]
    /\ log' = [log EXCEPT !.nTokens = @ + 1]
    /\ UNCHANGED <<appVars, respCh, idCounter, agent, env>>

\* the errors of ChatCompletionStream: http.Do failed, the status is not 200,
\* or ParseSSEStream met a frame that does not decode
RequestFailed == "request failed: connection refused"
StatusFailed == "API error (status 500): "
FrameFailed == "stream error: failed to parse SSE chunk"
ReadFailed == "stream error: SSE stream read error"
StreamErrors == {RequestFailed, StatusFailed, FrameFailed, ReadFailed}

\* the errors ChatCompletionStream can return once n deltas reached the
\* callback: only a bad frame or a read error comes after a delta
StreamErrorsAfter(n) == IF n = 0 THEN StreamErrors ELSE {FrameFailed, ReadFailed}

\* a failed request that is sent again instead of failing the turn
StreamFail_Retries(g) ==
    /\ Running
    /\ gor[g].pc = "stream"
    /\ gor' = [gor EXCEPT ![g].pc = "loop"]
    /\ NoOutput
    /\ UNCHANGED <<appVars, respCh, idCounter, agent, env, log>>

\* a failed first request that takes the user message back out of the history
StreamFail_RollsBack(g) ==
    /\ Running
    /\ gor[g].pc = "stream"
    /\ \E e \in StreamErrorsAfter(gor[g].ntok) :
           gor' = [gor EXCEPT ![g].pc = "returned",
                              ![g].err = "LLM request failed: " \o e]
    /\ agent' = [agent EXCEPT !.history =
                    IF gor[g].round = 1 THEN SubSeq(@, 1, Len(@) - 1) ELSE @]
    /\ NoOutput
    /\ UNCHANGED <<appVars, respCh, idCounter, env, log>>

\* ChatCompletionStream returns an error: the turn fails
StreamFail(g) ==
    /\ Running
    /\ gor[g].pc = "stream"
    /\ \E e \in StreamErrorsAfter(gor[g].ntok) :
           gor' = [gor EXCEPT ![g].pc = "returned",
                              ![g].err = "LLM request failed: " \o e]
    /\ NoOutput
    /\ UNCHANGED <<appVars, respCh, idCounter, agent, env, log>>

\* the tool calls of a response: ids are fresh, names any of ToolNames
CallsOf(names, n) ==
    [k \in 1..Len(names) |-> [ID |-> n + k, Name |-> names[k], Arguments |-> CallArgs]]

CallNames(left) == UNION {[1..n -> ToolNames] : n \in 1..left}

\* the stream ends with a message without tool calls: it is appended and Send
\* returns nil after the final newline
StreamDoneText(g) ==
    /\ Running
    /\ gor[g].pc = "stream"
    /\ AppendHistory(g, AssistantMessage(gor[g].content, <<>>))
    /\ StdoutWrite(g, "\n")
    /\ gor' = [gor EXCEPT ![g].pc = "returned", ![g].err = ""]
    /\ UNCHANGED <<appVars, respCh, idCounter, env, log>>

\* the stream ends with a message that carries tool calls: it is appended and
\* the calls are dispatched in order
StreamDoneCalls(g) ==
    /\ Running
    /\ gor[g].pc = "stream"
    /\ gor[g].round < MaxRounds
    /\ \E names \in CallNames(budget.calls - log.nCalls) :
        LET calls == CallsOf(names, log.nCalls)
        IN  /\ AppendHistory(g, AssistantMessage(gor[g].content, calls))
            /\ gor' = [gor EXCEPT ![g].pc = "dispatch", ![g].calls = calls, ![g].i = 1]
            /\ log' = [log EXCEPT !.nCalls = @ + Len(calls)]
    /\ NoOutput
    /\ UNCHANGED <<appVars, respCh, idCounter, env>>

\* ---------------------------------------------------- Agent.executeTool
\* the call being dispatched
Current(g) == gor[g].calls[gor[g].i]

\* the loop over msg.ToolCalls left after its first call
Advance_SkipsRest(g) == [gor[g] EXCEPT !.pc = "loop", !.i = 0, !.calls = <<>>, !.ch = 0]

\* the loop over msg.ToolCalls moves on; after the last call the outer loop
\* starts its next iteration
Advance(g) ==
    IF gor[g].i < Len(gor[g].calls)
    THEN [gor[g] EXCEPT !.pc = "dispatch", !.i = @ + 1, !.ch = 0]
    ELSE [gor[g] EXCEPT !.pc = "loop", !.i = 0, !.calls = <<>>, !.ch = 0]

\* an unknown tool that makes Send return its error, leaving the call unanswered
DispatchUnknown_ReturnsError(g) ==
    /\ Running
    /\ gor[g].pc = "dispatch"
    /\ Get(Current(g).Name) = NoTool
    /\ StderrWrite(g, "[tool] Unknown tool: " \o Current(g).Name \o "\n")
    /\ gor' = [gor EXCEPT ![g].pc = "returned",
                          ![g].err = UnknownToolResult(Current(g).Name)]
    /\ UNCHANGED <<appVars, respCh, idCounter, agent, env, log>>

\* executeTool, registry.Get returns nil: the warning line and the result text
DispatchUnknown(g) ==
    /\ Running
    /\ gor[g].pc = "dispatch"
    /\ Get(Current(g).Name) = NoTool
    /\ StderrWrite(g, "[tool] Unknown tool: " \o Current(g).Name \o "\n")
    /\ AppendHistory(g, ToolMessage(Current(g), UnknownToolResult(Current(g).Name)))
    /\ gor' = [gor EXCEPT ![g] = Advance(g)]
    /\ UNCHANGED <<appVars, respCh, idCounter, env, log>>

\* tool.Execute is entered: the "[tool] name" line is written first
BeginExecute(g) ==
    /\ StderrWrite(g, "[tool] " \o Current(g).Name \o "\n")
    /\ gor' = [gor EXCEPT ![g].pc = "exec"]

\* executeTool on an auto-allow tool: no permission check
DispatchAuto(g) ==
    /\ Running
    /\ gor[g].pc = "dispatch"
    /\ Get(Current(g).Name) = PermissionAuto
    /\ BeginExecute(g)
    /\ log' = [log EXCEPT !.execs = @ \cup {Current(g)}]
    /\ UNCHANGED <<appVars, respCh, idCounter, agent, env>>

\* executeTool running a requires-approval tool without calling Check
DispatchPrompt_NoCheck(g) ==
    /\ Running
    /\ gor[g].pc = "dispatch"
    /\ Get(Current(g).Name) = PermissionPrompt
    /\ BeginExecute(g)
    /\ log' = [log EXCEPT !.execs = @ \cup {Current(g)}]
    /\ UNCHANGED <<appVars, respCh, idCounter, agent, env>>

\* executeTool on a requires-approval tool: a.permission.Check is called.
\* PermissionInterceptor.Check makes the acknowledgment channel, posts the
\* request and blocks; Checker.Check prompts and blocks on its input.
DispatchPrompt(g) ==
    /\ Running
    /\ gor[g].pc = "dispatch"
    /\ Get(Current(g).Name) = PermissionPrompt
    /\ IF agent.permission = "PermissionInterceptor"
       THEN LET ch == idCounter + 1
                req == PermissionRequestMsg(generateID(ch), Current(g).Name,
                                            Preview(Current(g)), ch)
            IN  /\ Len(events) < EventsCap
                /\ respCh' = Append(respCh, <<>>)
                /\ idCounter' = ch
                /\ events' = events \o Tagged(<<req>>, nEvents, g)
                /\ nEvents' = nEvents + 1
                /\ gor' = [gor EXCEPT ![g].pc = "check", ![g].ch = ch]
                /\ log' = [log EXCEPT !.called = @ \cup {Current(g)},
                                      !.posted = Append(@, ch),
                                      !.written = Append(@, <<>>)]
                /\ UNCHANGED <<werr, outBuf>>
       ELSE /\ gor' = [gor EXCEPT ![g].pc = "check", ![g].ch = 0]
            /\ log' = [log EXCEPT !.called = @ \cup {Current(g)}]
            /\ NoOutput
            /\ UNCHANGED <<respCh, idCounter>>
    /\ UNCHANGED <<appVars, agent, env>>

\* Check returning the opposite of the value on the channel
CheckResult_Negated(ch) == ~Head(respCh[ch])

\* the value PermissionInterceptor.Check returns: <-respCh
CheckResult(ch) == Head(respCh[ch])

\* the decisions Check can return now: the value on the acknowledgment channel
\* (none while it is empty), or the line the operator types to the Checker
CheckReturns(g) ==
    IF agent.permission = "PermissionInterceptor"
    THEN IF respCh[gor[g].ch] # <<>> THEN {CheckResult(gor[g].ch)} ELSE {}
    ELSE BOOLEAN

\* executeTool running the tool although Check returned false
CheckDenied_StillExecutes(g) ==
    /\ Running
    /\ gor[g].pc = "check"
    /\ FALSE \in CheckReturns(g)
    /\ IF agent.permission = "PermissionInterceptor"
       THEN respCh' = [respCh EXCEPT ![gor[g].ch] = Tail(@)]
       ELSE UNCHANGED respCh
    /\ BeginExecute(g)
    /\ log' = [log EXCEPT !.checks = @ \cup {[call |-> Current(g), ch |-> gor[g].ch,
                                               ret |-> FALSE]},
                          !.execs = @ \cup {Current(g)}]
    /\ UNCHANGED <<appVars, idCounter, agent, env>>

\* Check returns false: the denial line, the fixed result, no Execute
CheckDenied(g) ==
    /\ Running
    /\ gor[g].pc = "check"
    /\ FALSE \in CheckReturns(g)
    /\ IF agent.permission = "PermissionInterceptor"
       THEN respCh' = [respCh EXCEPT ![gor[g].ch] = Tail(@)]
       ELSE UNCHANGED respCh
    /\ StderrWrite(g, "[tool] " \o Current(g).Name \o ": permission denied\n")
    /\ AppendHistory(g, ToolMessage(Current(g), PermissionDeniedResult))
    /\ gor' = [gor EXCEPT ![g] = Advance(g)]
    /\ log' = [log EXCEPT !.checks = @ \cup {[call |-> Current(g), ch |-> gor[g].ch,
                                               ret |-> FALSE]}]
    /\ UNCHANGED <<appVars, idCounter, env>>

\* Check returns true: the tool is executed
CheckAllowed(g) ==
    /\ Running
    /\ gor[g].pc = "check"
    /\ TRUE \in CheckReturns(g)
    /\ IF agent.permission = "PermissionInterceptor"
       THEN respCh' = [respCh EXCEPT ![gor[g].ch] = Tail(@)]
       ELSE UNCHANGED respCh
    /\ BeginExecute(g)
    /\ log' = [log EXCEPT !.checks = @ \cup {[call |-> Current(g), ch |-> gor[g].ch,
                                               ret |-> TRUE]},
                          !.execs = @ \cup {Current(g)}]
    /\ UNCHANGED <<appVars, idCounter, agent, env>>

\* a cancelled context making the turn return in the middle of a tool call
ExecuteDone_AbortsOnCancel(g) ==
    /\ Running
    /\ gor[g].pc = "exec"
    /\ StderrWrite(g, "[tool:done] " \o Current(g).Name \o "\n")
    /\ IF gor[g].cancelled
       THEN /\ gor' = [gor EXCEPT ![g].pc = "returned",
                                  ![g].err = "agent cancelled: " \o CtxErr]
            /\ UNCHANGED agent
       ELSE /\ AppendHistory(g, ToolMessage(Current(g), ToolOutput(Current(g).Name)))
            /\ gor' = [gor EXCEPT ![g] = Advance(g)]
    /\ UNCHANGED <<appVars, respCh, idCounter, env, log>>

\* t.Execute returns a result: "[tool:done]" and the result text
ExecuteDone(g) ==
    /\ Running
    /\ gor[g].pc = "exec"
    /\ StderrWrite(g, "[tool:done] " \o Current(g).Name \o "\n")
    /\ AppendHistory(g, ToolMessage(Current(g), ToolOutput(Current(g).Name)))
    /\ gor' = [gor EXCEPT ![g] = Advance(g)]
    /\ UNCHANGED <<appVars, respCh, idCounter, env, log>>

\* an error of t.Execute returned by Send as its own error
ExecuteError_FailsTurn(g) ==
    /\ Running
    /\ gor[g].pc = "exec"
    /\ StderrWrite(g, "[tool:error] " \o Current(g).Name \o "\n")
    /\ gor' = [gor EXCEPT ![g].pc = "returned",
                          ![g].err = ToolErrorResult(ToolFailure(Current(g).Name))]
    /\ UNCHANGED <<appVars, respCh, idCounter, agent, env, log>>

\* t.Execute returns an error: "[tool:error]" and the "Tool error: " text
ExecuteError(g) ==
    /\ Running
    /\ gor[g].pc = "exec"
    /\ StderrWrite(g, "[tool:error] " \o Current(g).Name \o "\n")
    /\ AppendHistory(g, ToolMessage(Current(g),
                                    ToolErrorResult(ToolFailure(Current(g).Name))))
    /\ gor' = [gor EXCEPT ![g] = Advance(g)]
    /\ UNCHANGED <<appVars, respCh, idCounter, env, log>>

\* every step of the goroutine that runs Agent.Send, but the return on a
\* cancelled context: App.runAgent passes context.Background(), which is never
\* cancelled, so that step belongs to the callers that pass their own context
AgentStep(g) ==
    \/ Send(g)
    \/ LoopRequest(g)
    \/ StreamToken(g)
    \/ StreamFail(g)
    \/ StreamDoneText(g)
    \/ StreamDoneCalls(g)
    \/ DispatchUnknown(g)
    \/ DispatchAuto(g)
    \/ DispatchPrompt(g)
    \/ CheckDenied(g)
    \/ CheckAllowed(g)
    \/ ExecuteDone(g)
    \/ ExecuteError(g)

\* ------------------------------------------------------------ front end
agentVars == <<events, nEvents, werr, respCh, idCounter, agent, gor, outBuf, budget, stream, registry, spawn, writer>>

\* the keys of DefaultKeyMap that App.Update tells apart ("esc" acts as "tab"
\* does), and "a" for every other character
Keys == {"enter", "ctrl+c", "tab", "y", "n", "a"}

\* the operator types "y" and "n" only to answer a prompt; elsewhere they are
\* characters like "a"
Pressed(k) == k \in {"y", "n"} => app.permReq # NoReq

SidebarMaxTools == 10

ChatMessage(role, content) == [Role |-> role, Content |-> content]

\* ChatModel.Update, case PermissionResponseMsg: the last permission prompt
\* gets the decision appended
ChatPermissionResponse(messages, allowed) ==
    LET idx == {i \in 1..Len(messages) :
                   /\ messages[i].Role = "system"
                   /\ HasPrefix(messages[i].Content, "[PERMISSION]")}
    IN  IF idx = {} THEN messages
        ELSE LET last == CHOOSE i \in idx : \A j \in idx : j <= i
             IN  [messages EXCEPT ![last].Content =
                     @ \o (IF allowed THEN "\n-> Allowed" ELSE "\n-> Denied")]

\* App.setFocus
setFocus(a, f) == [a EXCEPT !.focus = f]

\* App.toggleFocus
toggleFocus(a) == setFocus(a, IF a.focus = "FocusInput" THEN "FocusChat" ELSE "FocusInput")

\* the value App.handlePermissionKey writes on the acknowledgment channel
PermKeyDecision(k) == k = "y"

\* a permission key that clears the prompt without writing the decision
handlePermissionKey_NoWrite(k) ==
    IF k \in {"y", "n"}
    THEN /\ app' = [app EXCEPT !.permReq = NoReq]
         /\ chat' = [chat EXCEPT !.messages = ChatPermissionResponse(@, PermKeyDecision(k))]
         /\ UNCHANGED <<input, msgs, nSent, respCh, log>>
    ELSE IF k = "ctrl+c"
    THEN /\ app' = [app EXCEPT !.quit = TRUE]
         /\ UNCHANGED <<input, chat, msgs, nSent, respCh, log>>
    ELSE UNCHANGED <<app, input, chat, msgs, nSent, respCh, log>>

\* a permission prompt that lets the other keys through to the focus handling
handlePermissionKey_PassesKeys(k) ==
    IF k \in {"y", "n"}
    THEN LET ch == app.permReq.Response
             b == PermKeyDecision(k)
         IN  /\ Len(respCh[ch]) < 1
             /\ respCh' = [respCh EXCEPT ![ch] = Append(@, b)]
             /\ log' = [log EXCEPT !.written[ch] = Append(@, [key |-> k, val |-> b])]
             /\ app' = [app EXCEPT !.permReq = NoReq]
             /\ chat' = [chat EXCEPT !.messages = ChatPermissionResponse(@, b)]
             /\ UNCHANGED <<input, msgs, nSent>>
    ELSE IF k = "ctrl+c"
    THEN /\ app' = [app EXCEPT !.quit = TRUE]
         /\ UNCHANGED <<input, chat, msgs, nSent, respCh, log>>
    ELSE /\ app' = toggleFocus(app)
         /\ UNCHANGED <<input, chat, msgs, nSent, respCh, log>>

\* a permission prompt that stays up after its decision was written
handlePermissionKey_KeepsRequest(k) ==
    IF k \in {"y", "n"}
    THEN LET ch == app.permReq.Response
             b == PermKeyDecision(k)
         IN  /\ Len(respCh[ch]) < 1
             /\ respCh' = [respCh EXCEPT ![ch] = Append(@, b)]
             /\ log' = [log EXCEPT !.written[ch] = Append(@, [key |-> k, val |-> b])]
             /\ chat' = [chat EXCEPT !.messages = ChatPermissionResponse(@, b)]
             /\ UNCHANGED <<app, input, msgs, nSent>>
    ELSE IF k = "ctrl+c"
    THEN /\ app' = [app EXCEPT !.quit = TRUE]
         /\ UNCHANGED <<input, chat, msgs, nSent, respCh, log>>
    ELSE UNCHANGED <<app, input, chat, msgs, nSent, respCh, log>>

\* App.handlePermissionKey
handlePermissionKey(k) ==
    IF k \in {"y", "n"}
    THEN LET ch == app.permReq.Response
             b == PermKeyDecision(k)
         IN  /\ Len(respCh[ch]) < 1
             /\ respCh' = [respCh EXCEPT ![ch] = Append(@, b)]
             /\ log' = [log EXCEPT !.written[ch] = Append(@, [key |-> k, val |-> b])]
             /\ app' = [app EXCEPT !.permReq = NoReq]
             /\ chat' = [chat EXCEPT !.messages = ChatPermissionResponse(@, b)]
             /\ UNCHANGED <<input, msgs, nSent>>
    ELSE IF k = "ctrl+c"
    THEN /\ app' = [app EXCEPT !.quit = TRUE]
         /\ UNCHANGED <<input, chat, msgs, nSent, respCh, log>>
    ELSE UNCHANGED <<app, input, chat, msgs, nSent, respCh, log>>

\* InputModel.Update on a key: Enter sends the trimmed text, the other keys edit
InputUpdateKey(k) ==
    IF input.disabled THEN UNCHANGED <<input, msgs, nSent>>
    ELSE IF k = "enter"
    THEN IF TrimSpace(input.text) = "" \/ nSent >= budget.turns
         THEN UNCHANGED <<input, msgs, nSent>>
         ELSE /\ input' = [input EXCEPT !.text = ""]
              /\ nSent' = nSent + 1
              /\ msgs' = msgs \cup {[n |-> nSent + 1, ev |-> SendMsg(TrimSpace(input.text))]}
    ELSE /\ input' = [input EXCEPT !.text =
                        IF Len(@) >= MaxText THEN @
                        ELSE @ \o k]
         /\ UNCHANGED <<msgs, nSent>>

\* App.Update, case tea.KeyMsg
UpdateKeyMsg(k) ==
    /\ Running
    /\ Pressed(k)
    /\ IF app.permReq # NoReq
       THEN handlePermissionKey(k)
       ELSE /\ UNCHANGED <<respCh, log, chat>>
            /\ IF k = "ctrl+c"
               THEN /\ app' = [app EXCEPT !.quit = TRUE]
                    /\ UNCHANGED <<input, msgs, nSent>>
               ELSE IF k = "tab"
               THEN /\ app' = toggleFocus(app)
                    /\ UNCHANGED <<input, msgs, nSent>>
               ELSE IF app.focus = "FocusInput"
               THEN /\ InputUpdateKey(k)
                    /\ UNCHANGED app
               ELSE UNCHANGED <<app, input, msgs, nSent>>
    /\ UNCHANGED <<sidebar, wfe, events, nEvents, werr, idCounter, agent, gor, outBuf,
                   env, budget, stream, registry, spawn, writer>>

\* the number of WaitForEvent commands in the batch App.Update returns for SendMsg
SendMsgWaitForEvent == 1

\* a SendMsg handler that does not tell the sidebar the agent is busy
UpdateSendMsg_LeavesSidebar(m) ==
    /\ Running
    /\ m \in msgs
    /\ m.ev.type = "SendMsg"
    /\ msgs' = msgs \ {m}
    /\ chat' = [chat EXCEPT !.messages = Append(@, ChatMessage("user", m.ev.Text))]
    /\ app' = [app EXCEPT !.agentBusy = TRUE]
    /\ input' = [input EXCEPT !.disabled = TRUE]
    /\ gor' = [gor EXCEPT ![m.n].pc = "Send"]
    /\ wfe' = wfe + SendMsgWaitForEvent
    /\ log' = [log EXCEPT !.started = @ \cup {m.n}]
    /\ UNCHANGED <<sidebar, nSent, events, nEvents, werr, respCh, idCounter, agent, outBuf,
                   env, budget, stream, registry, spawn, writer>>

\* App.Update, case SendMsg: the turn is started by the runAgent command
UpdateSendMsg(m) ==
    /\ Running
    /\ m \in msgs
    /\ m.ev.type = "SendMsg"
    /\ msgs' = msgs \ {m}
    /\ chat' = [chat EXCEPT !.messages = Append(@, ChatMessage("user", m.ev.Text))]
    /\ app' = [app EXCEPT !.agentBusy = TRUE]
    /\ input' = [input EXCEPT !.disabled = TRUE]
    /\ sidebar' = [sidebar EXCEPT !.agentBusy = TRUE]
    /\ gor' = [gor EXCEPT ![m.n].pc = "Send"]
    /\ wfe' = wfe + SendMsgWaitForEvent
    /\ log' = [log EXCEPT !.started = @ \cup {m.n}]
    /\ UNCHANGED <<nSent, events, nEvents, werr, respCh, idCounter, agent, outBuf, env,
                   budget, stream, registry, spawn, writer>>

\* the command WaitForEvent returns: one receive from the bridge channel
WaitForEvent ==
    /\ Running
    /\ wfe > 0
    /\ events # <<>>
    /\ msgs' = msgs \cup {Head(events)}
    /\ events' = Tail(events)
    /\ wfe' = wfe - 1
    /\ UNCHANGED <<app, input, sidebar, chat, nSent, nEvents, werr, respCh, idCounter,
                   agent, gor, outBuf, env, log, budget, stream, registry, spawn, writer>>

\* App.runAgent with the message built while Send is still streaming
RunAgentDone_BeforeReturn(g) ==
    /\ Running
    /\ gor[g].pc = "stream"
    /\ \A m \in msgs : ~("turn" \in DOMAIN m.ev /\ m.ev.turn = g)
    /\ g \notin log.doneHandled
    /\ msgs' = msgs \cup {[n |-> g, ev |-> AgentDoneMsg(g, gor[g].err)]}
    /\ UNCHANGED <<app, input, sidebar, chat, wfe, nSent, events, nEvents, werr, respCh,
                   idCounter, agent, gor, outBuf, env, log, budget, stream, registry, spawn, writer>>

\* the closure of App.runAgent after Send returned: AgentDoneMsg{Error: err}
RunAgentDone(g) ==
    /\ Running
    /\ gor[g].pc = "returned"
    /\ gor' = [gor EXCEPT ![g].pc = "done"]
    /\ msgs' = msgs \cup {[n |-> g, ev |-> AgentDoneMsg(g, gor[g].err)]}
    /\ UNCHANGED <<app, input, sidebar, chat, wfe, nSent, events, nEvents, werr, respCh,
                   idCounter, agent, outBuf, env, log, budget, stream, registry, spawn, writer>>

\* a message read from the bridge channel
FromChannel(m) == "seq" \in DOMAIN m

\* a channel event handled without issuing WaitForEvent again
Rearm_NoReader(m) ==
    /\ msgs' = msgs \ {m}
    /\ UNCHANGED <<wfe, nSent, agentVars, env>>

\* what every case of App.Update on a channel event shares: the message is
\* consumed and one WaitForEvent is issued again
Rearm(m) ==
    /\ msgs' = msgs \ {m}
    /\ wfe' = wfe + 1
    /\ UNCHANGED <<nSent, agentVars, env>>

\* App.Update, case TokenMsg: ChatModel.Update appends to the streaming buffer
UpdateTokenMsg(m) ==
    /\ Running
    /\ m \in msgs /\ FromChannel(m)
    /\ m.ev.type = "TokenMsg"
    /\ chat' = [chat EXCEPT !.streaming = @ \o m.ev.Content]
    /\ log' = [log EXCEPT !.applied = Append(@, [seq |-> m.seq, turn |-> m.turn])]
    /\ Rearm(m)
    /\ UNCHANGED <<app, input, sidebar>>

\* App.Update, case ToolStartMsg
UpdateToolStartMsg(m) ==
    /\ Running
    /\ m \in msgs /\ FromChannel(m)
    /\ m.ev.type = "ToolStartMsg"
    /\ chat' = [chat EXCEPT !.messages = Append(@, ChatMessage("tool", "> " \o m.ev.Name \o " " \o m.ev.Args))]
    /\ sidebar' = [sidebar EXCEPT !.toolCalls =
                      LET all == <<[Name |-> m.ev.Name, Running |-> TRUE]>> \o @
                      IN  IF Len(all) > SidebarMaxTools
                          THEN SubSeq(all, 1, SidebarMaxTools) ELSE all]
    /\ Rearm(m)
    /\ UNCHANGED <<app, input, log>>

\* App.Update, case PermissionRequestMsg
UpdatePermissionRequestMsg(m) ==
    /\ Running
    /\ m \in msgs /\ FromChannel(m)
    /\ m.ev.type = "PermissionRequestMsg"
    /\ app' = [app EXCEPT !.permReq = m.ev]
    /\ chat' = [chat EXCEPT !.messages = Append(@,
                   ChatMessage("system", "[PERMISSION] " \o m.ev.ToolName \o "\n"
                                             \o m.ev.Preview \o "\n[y] allow  [n] deny"))]
    /\ Rearm(m)
    /\ UNCHANGED <<input, sidebar, log>>

\* App.Update, case AgentDoneMsg: the busy state is cleared and ChatModel.Update
\* finalizes the streaming buffer
UpdateAgentDoneMsg(m) ==
    /\ Running
    /\ m \in msgs /\ ~FromChannel(m)
    /\ m.ev.type = "AgentDoneMsg"
    /\ msgs' = msgs \ {m}
    /\ app' = setFocus([app EXCEPT !.agentBusy = FALSE], "FocusInput")
    /\ input' = [input EXCEPT !.disabled = FALSE]
    /\ sidebar' = [sidebar EXCEPT !.agentBusy = FALSE]
    /\ chat' =
        LET withErr == IF m.ev.Error # ""
                       THEN Append(chat.messages,
                                   ChatMessage("system", "Error: " \o m.ev.Error))
                       ELSE chat.messages
        IN  IF chat.streaming # ""
            THEN [streaming |-> "",
                  messages |-> Append(withErr, ChatMessage("assistant", chat.streaming))]
            ELSE [chat EXCEPT !.messages = withErr]
    /\ log' = [log EXCEPT !.doneHandled = @ \cup {m.ev.turn}]
    /\ UNCHANGED <<wfe, nSent, agentVars, env>>

\* the number of WaitForEvent commands App.Init issues
InitWaitForEvent == 1

InitLog == [nCalls |-> 0, nTokens |-> 0, called |-> {}, checks |-> {}, execs |-> {}, posted |-> <<>>,
            written |-> <<>>, applied |-> <<>>, started |-> {},
            doneHandled |-> {}]

\* tui.New on the root agent of main.go, then App.Init
Init ==
    /\ app = [agentBusy |-> FALSE, focus |-> "FocusInput", permReq |-> NoReq,
              quit |-> FALSE]
    /\ input = [disabled |-> FALSE, text |-> ""]
    /\ sidebar = [agentBusy |-> FALSE, toolCalls |-> <<>>]
    /\ chat = [streaming |-> "", messages |-> <<>>]
    /\ wfe = InitWaitForEvent
    /\ msgs = {}
    /\ nSent = 0
    /\ events = <<>>
    /\ nEvents = 0
    /\ werr = ""
    /\ respCh = <<>>
    /\ idCounter = 0
    /\ agent = [permission |-> "PermissionInterceptor", stdout |-> "EventWriter",
                stderr |-> "ToolEventWriter",
                history |-> <<[Role |-> "system", Content |-> "prompt",
                               ToolCalls |-> <<>>, ToolCallID |-> 0, Name |-> ""]>>]
    /\ gor = [g \in Turns |-> IdleGor]
    /\ outBuf = [stdout |-> "", stderr |-> ""]
    /\ env = {}
    /\ log = InitLog
    /\ budget \in Scenarios
    /\ stream = IdleStream
    /\ registry = IdleRegistry
    /\ spawn = IdleSpawn
    /\ writer = IdleWriter

Next ==
    \/ \E k \in Keys : UpdateKeyMsg(k)
    \/ \E m \in msgs : UpdateSendMsg(m)
    \/ \E m \in msgs : UpdateTokenMsg(m)
    \/ \E m \in msgs : UpdateToolStartMsg(m)
    \/ \E m \in msgs : UpdatePermissionRequestMsg(m)
    \/ \E m \in msgs : UpdateAgentDoneMsg(m)
    \/ WaitForEvent
    \/ \E g \in Turns : RunAgentDone(g)
    \/ \E g \in Turns : AgentStep(g)

Spec == Init /\ [][Next]_vars

\* ------------------------------------------------- the orchestrator's API
SystemMessage ==
    [Role |-> "system", Content |-> "prompt", ToolCalls |-> <<>>, ToolCallID |-> 0,
     Name |-> ""]

\* a caller (a test, the REPL) calls Send with a cancellable context when no
\* Send is running
CallSend ==
    /\ nSent < budget.turns
    /\ \A o \in Turns : ~InSend(o)
    /\ nSent' = nSent + 1
    /\ gor' = [gor EXCEPT ![nSent + 1] = [IdleGor EXCEPT !.pc = "Send", !.ctx = "WithCancel"]]
    /\ UNCHANGED <<app, input, sidebar, chat, wfe, msgs, events, nEvents, werr, respCh,
                   idCounter, agent, outBuf, env, log, budget, stream, registry, spawn, writer>>

\* the caller cancels the context of the running Send
CancelCtx(g) ==
    /\ InSend(g)
    /\ gor[g].ctx = "WithCancel"
    /\ ~gor[g].cancelled
    /\ gor' = [gor EXCEPT ![g].cancelled = TRUE, ![g].at = gor[g].pc]
    /\ UNCHANGED <<app, input, sidebar, chat, wfe, msgs, nSent, events, nEvents, werr,
                   respCh, idCounter, agent, outBuf, env, log, budget, stream, registry, spawn, writer>>

\* the caller receives from the bridge channel; it keeps the acknowledgment
\* channel of a permission request
EnvRecv ==
    /\ events # <<>>
    /\ events' = Tail(events)
    /\ env' = IF Head(events).ev.type = "PermissionRequestMsg"
              THEN env \cup {Head(events).ev.Response} ELSE env
    /\ UNCHANGED <<app, input, sidebar, chat, wfe, msgs, nSent, nEvents, werr, respCh,
                   idCounter, agent, gor, outBuf, log, budget, stream, registry, spawn, writer>>

\* the caller writes a decision on an acknowledgment channel it holds
EnvAnswer(ch, b) ==
    /\ ch \in env
    /\ respCh' = [respCh EXCEPT ![ch] = Append(@, b)]
    /\ log' = [log EXCEPT !.written[ch] = Append(@, [key |-> "", val |-> b])]
    /\ env' = env \ {ch}
    /\ UNCHANGED <<app, input, sidebar, chat, wfe, msgs, nSent, events, nEvents, werr,
                   idCounter, agent, gor, outBuf, budget, stream, registry, spawn, writer>>

\* the two ways an Agent is wired: agent.New as the agent tests and the REPL use
\* it, and after tui.New replaced its writers and permission handler
Wirings ==
    {[permission |-> "Checker", stdout |-> "buffer", stderr |-> "buffer"],
     [permission |-> "PermissionInterceptor", stdout |-> "EventWriter",
      stderr |-> "ToolEventWriter"]}

\* agent.New, with and without a system prompt
InitAgent ==
    /\ app = [agentBusy |-> FALSE, focus |-> "FocusInput", permReq |-> NoReq,
              quit |-> FALSE]
    /\ input = [disabled |-> FALSE, text |-> ""]
    /\ sidebar = [agentBusy |-> FALSE, toolCalls |-> <<>>]
    /\ chat = [streaming |-> "", messages |-> <<>>]
    /\ wfe = 0
    /\ msgs = {}
    /\ nSent = 0
    /\ events = <<>>
    /\ nEvents = 0
    /\ werr = ""
    /\ respCh = <<>>
    /\ idCounter = 0
    /\ \E w \in Wirings, h \in {<<>>, <<SystemMessage>>} :
          agent = [permission |-> w.permission, stdout |-> w.stdout, stderr |-> w.stderr,
                   history |-> h]
    /\ gor = [g \in Turns |-> IdleGor]
    /\ outBuf = [stdout |-> "", stderr |-> ""]
    /\ env = {}
    /\ log = InitLog
    /\ budget = AgentScenario
    /\ stream = IdleStream
    /\ registry = IdleRegistry
    /\ spawn = IdleSpawn
    /\ writer = IdleWriter

NextAgent ==
    \/ CallSend
    \/ \E g \in Turns : CancelCtx(g)
    \/ \E g \in Turns : LoopCancelled(g)
    \/ EnvRecv
    \/ \E ch \in env, b \in BOOLEAN : EnvAnswer(ch, b)
    \/ \E g \in Turns : AgentStep(g)

SpecAgent == InitAgent /\ [][NextAgent]_vars

\* ------------------------------------------- the streamed completion
\* strings.HasSuffix
HasSuffix(s, p) == Len(s) >= Len(p) /\ SubSeq(s, Len(s) - Len(p) + 1, Len(s)) = p

\* strings.Index(s, "{"), 1-based; 0 when there is none
IndexBrace(s) ==
    IF \E i \in 1..Len(s) : SubSeq(s, i, i) = "{"
    THEN CHOOSE i \in 1..Len(s) :
            /\ SubSeq(s, i, i) = "{"
            /\ \A j \in 1..(i - 1) : SubSeq(s, j, j) # "{"
    ELSE 0

\* strings.ReplaceAll(s, tok, ""): the occurrences of tok are removed from
\* left to right, never overlapping
RECURSIVE RemoveAll(_, _)
RemoveAll(s, tok) ==
    IF Len(s) < Len(tok) THEN s
    ELSE IF HasPrefix(s, tok) THEN RemoveAll(SubSeq(s, Len(tok) + 1, Len(s)), tok)
    ELSE SubSeq(s, 1, 1) \o RemoveAll(SubSeq(s, 2, Len(s)), tok)

\* knownSpecialTokens of the llm package and specialTokens of the agent
\* package: the same five tokens
knownSpecialTokens ==
    <<"<|tool_call_end|>", "<|tool_call_start|>", "<|function|>", "<|tool_sep|>",
      "<|im_end|>">>
specialTokens == knownSpecialTokens

\* the loop `for _, tok := range toks { s = strings.ReplaceAll(s, tok, "") }`
RECURSIVE StripTokens(_, _)
StripTokens(s, toks) ==
    IF toks = <<>> THEN s ELSE StripTokens(RemoveAll(s, Head(toks)), Tail(toks))

\* stripSpecialTokens of the agent package
stripSpecialTokens(s) == StripTokens(s, specialTokens)

\* looksLikeToolCallJSON
looksLikeToolCallJSON(str) ==
    LET s == TrimSpace(str)
    IN  IF Len(s) = 0 THEN FALSE
        ELSE IF HasPrefix(s, "{") /\ HasSuffix(s, "}") THEN TRUE
        ELSE IndexBrace(s) > 1 /\ HasSuffix(s, "}")

\* a cleaning that strips and trims but keeps what looks like JSON
cleanToolCallContent_KeepsJSON(str) == TrimSpace(StripTokens(str, knownSpecialTokens))

\* cleanToolCallContent
cleanToolCallContent(str) ==
    LET s == TrimSpace(StripTokens(str, knownSpecialTokens))
    IN  IF looksLikeToolCallJSON(s) THEN "" ELSE s

\* the largest index a tool-call fragment of the explored streams carries
MaxIndex == 2
Indexes == 0..MaxIndex

\* a ToolCallDelta that opens the call of an index, and one that continues it
StartFragment(idx) ==
    [Index |-> idx, ID |-> "call_" \o ToString(idx), Type |-> "function",
     Function |-> [Name |-> "f", Arguments |-> "x"]]
ContFragment(idx) ==
    [Index |-> idx, ID |-> "", Type |-> "", Function |-> [Name |-> "", Arguments |-> "y"]]
Fragments == {StartFragment(i) : i \in Indexes} \cup {ContFragment(i) : i \in Indexes}

\* a ToolCallDelta for index 0 that carries another id, type and name
OtherFragment ==
    [Index |-> 0, ID |-> "call_9", Type |-> "tool", Function |-> [Name |-> "g", Arguments |-> ""]]

\* MessageDelta, ChunkChoice and ChatCompletionChunk
MessageDelta(role, content, calls) == [Role |-> role, Content |-> content, ToolCalls |-> calls]
ChunkChoice(d) == [Delta |-> d]
ChatCompletionChunk(choices) == [Choices |-> choices]

\* the deltas of the explored streams: a role, text (plain, blank, a special
\* token, a JSON blob), one fragment with or without content, two fragments,
\* a fragment with another id
TextDeltas ==
    {MessageDelta("assistant", "", <<>>), MessageDelta("user", "", <<>>)}
        \cup {MessageDelta("", c, <<>>) : c \in {"a", " ", "<|im_end|>", "{}"}}
CallDeltas ==
    {MessageDelta("", c, <<f>>) : c \in {"", "a"}, f \in Fragments}
        \cup {MessageDelta("", "", <<StartFragment(1), StartFragment(0)>>),
              MessageDelta("", "", <<OtherFragment>>)}
Deltas == TextDeltas \cup CallDeltas

\* the chunks: one choice each, a chunk without choices (usage only), and a
\* chunk of two choices of which the first carries a fragment
Chunks ==
    {ChatCompletionChunk(<<ChunkChoice(d)>>) : d \in Deltas}
        \cup {ChatCompletionChunk(<<>>),
              ChatCompletionChunk(<<ChunkChoice(MessageDelta("", "a", <<StartFragment(0)>>)),
                                    ChunkChoice(MessageDelta("", "a", <<>>))>>)}

\* a line of the response body: head is its text up to the JSON document that
\* json.Unmarshal accepts, json holds the chunk that document encodes
BlankLine == [head |-> "", json |-> <<>>]
CommentLine == [head |-> ": keep-alive", json |-> <<>>]
DoneLine == [head |-> "data: [DONE]", json |-> <<>>]
BadLine == [head |-> "data: {\"choices\":", json |-> <<>>]
DataLine(c) == [head |-> "data: ", json |-> <<c>>]
Lines == {BlankLine, CommentLine, DoneLine, BadLine} \cup {DataLine(c) : c \in Chunks}

\* the longest response body explored, in lines
MaxLines == 3
Bodies == UNION {[1..n -> Lines] : n \in 0..MaxLines}

\* a fold that keeps the id and type of the first fragment of an index
AddFragment_KeepsFirst(tcs, tcd) ==
    IF tcd.Index \notin DOMAIN tcs
    THEN (tcd.Index :> [ID |-> tcd.ID, Type |-> tcd.Type,
                        Function |-> [Name |-> tcd.Function.Name,
                                      Arguments |-> tcd.Function.Arguments]]) @@ tcs
    ELSE LET existing == tcs[tcd.Index]
         IN  [tcs EXCEPT ![tcd.Index] =
                 [ID |-> existing.ID,
                  Type |-> existing.Type,
                  Function |->
                      [Name |-> existing.Function.Name \o tcd.Function.Name,
                       Arguments |-> existing.Function.Arguments
                                        \o tcd.Function.Arguments]]]

\* the body of `for _, tcd := range d.ToolCalls` in Add, on the map tcs
AddFragment(tcs, tcd) ==
    IF tcd.Index \notin DOMAIN tcs
    THEN [i \in DOMAIN tcs \cup {tcd.Index} |->
             IF i = tcd.Index
             THEN [ID |-> tcd.ID, Type |-> tcd.Type,
                   Function |-> [Name |-> tcd.Function.Name,
                                 Arguments |-> tcd.Function.Arguments]]
             ELSE tcs[i]]
    ELSE LET existing == tcs[tcd.Index]
         IN  [tcs EXCEPT ![tcd.Index] =
                 [ID |-> IF tcd.ID # "" THEN tcd.ID ELSE existing.ID,
                  Type |-> IF tcd.Type # "" THEN tcd.Type ELSE existing.Type,
                  Function |->
                      [Name |-> IF tcd.Function.Name # ""
                                THEN existing.Function.Name \o tcd.Function.Name
                                ELSE existing.Function.Name,
                       Arguments |-> existing.Function.Arguments
                                        \o tcd.Function.Arguments]]]

RECURSIVE AddFragments(_, _)
AddFragments(tcs, tcds) ==
    IF tcds = <<>> THEN tcs ELSE AddFragments(AddFragment(tcs, Head(tcds)), Tail(tcds))

\* the body of `for _, choice := range chunk.Choices` in Add
AddDelta(a, d) ==
    [role |-> IF d.Role # "" THEN d.Role ELSE a.role,
     content |-> IF d.Content # "" THEN a.content \o d.Content ELSE a.content,
     toolCalls |-> AddFragments(a.toolCalls, d.ToolCalls)]

RECURSIVE AddChoices(_, _)
AddChoices(a, choices) ==
    IF choices = <<>> THEN a
    ELSE AddChoices(AddDelta(a, Head(choices).Delta), Tail(choices))

\* DeltaAccumulator.Add
Add(a, chunk) == AddChoices(a, chunk.Choices)

\* the largest index in the map, from `maxIdx := 0`
MaxIdx(tcs) == CHOOSE m \in DOMAIN tcs \cup {0} : \A i \in DOMAIN tcs \cup {0} : i <= m

\* a list that ends at the first unused index
RECURSIVE ToolCallList_StopsAtGap(_, _, _)
ToolCallList_StopsAtGap(tcs, i, maxIdx) ==
    IF i > maxIdx \/ i \notin DOMAIN tcs THEN <<>>
    ELSE <<tcs[i]>> \o ToolCallList_StopsAtGap(tcs, i + 1, maxIdx)

\* the loop `for i := 0; i <= maxIdx; i++` of Message
RECURSIVE ToolCallList(_, _, _)
ToolCallList(tcs, i, maxIdx) ==
    IF i > maxIdx THEN <<>>
    ELSE (IF i \in DOMAIN tcs THEN <<tcs[i]>> ELSE <<>>) \o ToolCallList(tcs, i + 1, maxIdx)

\* a Message that cleans the content whether or not there are tool calls
Message_AlwaysCleans(a) ==
    [Role |-> a.role, Content |-> cleanToolCallContent(a.content),
     ToolCalls |-> IF DOMAIN a.toolCalls # {}
                   THEN ToolCallList(a.toolCalls, 0, MaxIdx(a.toolCalls)) ELSE <<>>,
     ToolCallID |-> 0, Name |-> ""]

\* DeltaAccumulator.Message
Message(a) ==
    IF Cardinality(DOMAIN a.toolCalls) > 0
    THEN [Role |-> a.role, Content |-> cleanToolCallContent(a.content),
          ToolCalls |-> ToolCallList(a.toolCalls, 0, MaxIdx(a.toolCalls)),
          ToolCallID |-> 0, Name |-> ""]
    ELSE [Role |-> a.role, Content |-> a.content, ToolCalls |-> <<>>,
          ToolCallID |-> 0, Name |-> ""]

\* a display callback that prints the content of every delta
DisplayChoice_ShowsAll(d) ==
    IF d.Content = "" THEN "" ELSE stripSpecialTokens(d.Content)

\* what the callback of Agent.loop prints for one choice
DisplayChoice(d) ==
    IF Len(d.ToolCalls) > 0 THEN ""
    ELSE IF d.Content = "" THEN ""
    ELSE stripSpecialTokens(d.Content)

\* what the callback of Agent.loop prints for one chunk
RECURSIVE Display(_)
Display(choices) ==
    IF choices = <<>> THEN "" ELSE DisplayChoice(Head(choices).Delta) \o Display(Tail(choices))

restVars == <<app, input, sidebar, chat, wfe, msgs, nSent, events, nEvents, werr,
              respCh, idCounter, agent, gor, outBuf, env, log, budget>>

\* ParseSSEStream's view of the next line
NextLine == stream.body[stream.n + 1]
IsEmptyLine(l) == l.head = "" /\ l.json = <<>>
IsDataLine(l) == HasPrefix(l.head, "data: ")
DataOf(l) == [head |-> TrimPrefix(l.head, "data: "), json |-> l.json]
IsDone(d) == d.head = "[DONE]" /\ d.json = <<>>
Unmarshals(d) == d.head = "" /\ d.json # <<>>
Scanning == stream.pc = "scan" /\ stream.n < Len(stream.body)

\* the return of ChatCompletionStream: (&msg, nil) or (nil, err)
ReturnMessage == [stream EXCEPT !.pc = "returned", !.msg = <<Message(stream.acc)>>]
ReturnError(e) == [stream EXCEPT !.pc = "returned", !.msg = <<>>, !.err = e]

\* ParseSSEStream: an empty line or a line without the "data: " prefix
ScanSkip ==
    /\ Scanning
    /\ IsEmptyLine(NextLine) \/ ~IsDataLine(NextLine)
    /\ stream' = [stream EXCEPT !.n = @ + 1]
    /\ UNCHANGED <<restVars, registry, spawn, writer>>

\* ParseSSEStream: "data: [DONE]" ends the stream
ScanDone ==
    /\ Scanning
    /\ ~IsEmptyLine(NextLine) /\ IsDataLine(NextLine)
    /\ IsDone(DataOf(NextLine))
    /\ stream' = [ReturnMessage EXCEPT !.n = @ + 1]
    /\ UNCHANGED <<restVars, registry, spawn, writer>>

\* a frame that does not decode and is passed over: the partial message is returned
ScanBad_ReturnsPartial ==
    /\ Scanning
    /\ ~IsEmptyLine(NextLine) /\ IsDataLine(NextLine)
    /\ ~IsDone(DataOf(NextLine)) /\ ~Unmarshals(DataOf(NextLine))
    /\ stream' = [ReturnMessage EXCEPT !.n = @ + 1]
    /\ UNCHANGED <<restVars, registry, spawn, writer>>

\* ParseSSEStream: json.Unmarshal fails
ScanBad ==
    /\ Scanning
    /\ ~IsEmptyLine(NextLine) /\ IsDataLine(NextLine)
    /\ ~IsDone(DataOf(NextLine)) /\ ~Unmarshals(DataOf(NextLine))
    /\ stream' = [ReturnError(FrameFailed) EXCEPT !.n = @ + 1]
    /\ UNCHANGED <<restVars, registry, spawn, writer>>

\* a decoded chunk folded and not handed to the caller's callback
FoldDelta_NoCallback ==
    /\ Scanning
    /\ ~IsEmptyLine(NextLine) /\ IsDataLine(NextLine)
    /\ ~IsDone(DataOf(NextLine)) /\ Unmarshals(DataOf(NextLine))
    /\ LET chunk == DataOf(NextLine).json[1]
       IN  stream' = [stream EXCEPT !.n = @ + 1,
                                    !.acc = Add(@, chunk),
                                    !.order = Append(@, [op |-> "Add", k |-> stream.n + 1])]
    /\ UNCHANGED <<restVars, registry, spawn, writer>>

\* ParseSSEStream decodes a chunk and calls the closure of
\* ChatCompletionStream, which begins with acc.Add(chunk)
FoldDelta ==
    /\ Scanning
    /\ ~IsEmptyLine(NextLine) /\ IsDataLine(NextLine)
    /\ ~IsDone(DataOf(NextLine)) /\ Unmarshals(DataOf(NextLine))
    /\ LET chunk == DataOf(NextLine).json[1]
       IN  stream' = [stream EXCEPT !.pc = "folded", !.n = @ + 1, !.cur = <<chunk>>,
                                    !.acc = Add(@, chunk),
                                    !.order = Append(@, [op |-> "Add", k |-> stream.n + 1])]
    /\ UNCHANGED <<restVars, registry, spawn, writer>>

\* the closure goes on with callback(chunk): the display callback of Agent.loop
OnDelta ==
    /\ stream.pc = "folded"
    /\ stream' = [stream EXCEPT !.pc = "scan", !.cur = <<>>,
                                !.stdout = @ \o Display(stream.cur[1].Choices),
                                !.order = Append(@, [op |-> "callback", k |-> stream.n])]
    /\ UNCHANGED <<restVars, registry, spawn, writer>>

\* a body that ends without "[DONE]" reported as a truncated stream
ScanEOF_Truncated ==
    /\ stream.pc = "scan" /\ stream.n = Len(stream.body)
    /\ ~stream.readErr
    /\ stream' = ReturnError(ReadFailed)
    /\ UNCHANGED <<restVars, registry, spawn, writer>>

\* ParseSSEStream: the body ends without "[DONE]" and scanner.Err() is nil
ScanEOF ==
    /\ stream.pc = "scan" /\ stream.n = Len(stream.body)
    /\ ~stream.readErr
    /\ stream' = ReturnMessage
    /\ UNCHANGED <<restVars, registry, spawn, writer>>

\* ParseSSEStream: reading the body fails
ScanReadError ==
    /\ stream.pc = "scan" /\ stream.n = Len(stream.body)
    /\ stream.readErr
    /\ stream' = ReturnError(ReadFailed)
    /\ UNCHANGED <<restVars, registry, spawn, writer>>

\* Agent.loop: ChatCompletionStream returned an error
LoopStreamError ==
    /\ stream.pc = "returned" /\ stream.err # ""
    /\ stream' = [stream EXCEPT !.pc = "failed",
                                !.sendErr = "LLM request failed: " \o stream.err]
    /\ UNCHANGED <<restVars, registry, spawn, writer>>

\* Agent.loop: the message is appended; without tool calls the turn ends
LoopAppendText ==
    /\ stream.pc = "returned" /\ stream.err = ""
    /\ Len(stream.msg[1].ToolCalls) = 0
    /\ stream' = [stream EXCEPT !.pc = "done",
                                !.history = Append(@, stream.msg[1]),
                                !.stdout = @ \o "\n"]
    /\ UNCHANGED <<restVars, registry, spawn, writer>>

\* Agent.loop: the message is appended and its tool calls go to executeTool
LoopAppendCalls ==
    /\ stream.pc = "returned" /\ stream.err = ""
    /\ Len(stream.msg[1].ToolCalls) > 0
    /\ stream' = [stream EXCEPT !.pc = "dispatch",
                                !.history = Append(@, stream.msg[1]),
                                !.dispatch = stream.msg[1].ToolCalls]
    /\ UNCHANGED <<restVars, registry, spawn, writer>>

\* a 200 response with any body of at most MaxLines lines, read to its end or
\* to a read error
InitStream ==
    /\ app = [agentBusy |-> FALSE, focus |-> "FocusInput", permReq |-> NoReq,
              quit |-> FALSE]
    /\ input = [disabled |-> FALSE, text |-> ""]
    /\ sidebar = [agentBusy |-> FALSE, toolCalls |-> <<>>]
    /\ chat = [streaming |-> "", messages |-> <<>>]
    /\ wfe = 0
    /\ msgs = {}
    /\ nSent = 0
    /\ events = <<>>
    /\ nEvents = 0
    /\ werr = ""
    /\ respCh = <<>>
    /\ idCounter = 0
    /\ LET w == CHOOSE w \in Wirings : TRUE
       IN  agent = [permission |-> w.permission, stdout |-> w.stdout, stderr |-> w.stderr,
                    history |-> <<>>]
    /\ gor = [g \in Turns |-> IdleGor]
    /\ outBuf = [stdout |-> "", stderr |-> ""]
    /\ env = {}
    /\ log = InitLog
    /\ budget = AgentScenario
    /\ \E b \in Bodies, r \in BOOLEAN :
           stream = [IdleStream EXCEPT !.pc = "scan", !.body = b, !.readErr = r]
    /\ registry = IdleRegistry
    /\ spawn = IdleSpawn
    /\ writer = IdleWriter

NextStream ==
    \/ ScanSkip
    \/ ScanDone
    \/ ScanBad
    \/ FoldDelta
    \/ OnDelta
    \/ ScanEOF
    \/ ScanReadError
    \/ LoopStreamError
    \/ LoopAppendText
    \/ LoopAppendCalls

SpecStream == InitStream /\ [][NextStream]_vars

\* ------------------------------------------------------- the tool registry
\* the tools handed to Register: three names, two tools of each name
MockNames == {"tool_a", "tool_b", "dup_tool"}
MockTools == {[name |-> n, desc |-> d] : n \in MockNames, d \in {"Tool A", "Tool B"}}

\* the names Get is asked for: the mock names and one never registered
GetNames == MockNames \cup {"nonexistent"}

\* the number of Register calls explored
MaxRegister == 3

\* the duplicate test of Register
Registered(r, name) == name \in DOMAIN r.tools

\* the panic value of Register, "" when it returns
RegisterPanic(r, t) ==
    IF Registered(r, t.name) THEN "tool already registered: " \o t.name ELSE ""

\* a Register that replaces the tool of a name already registered
Register_Overwrites(r, t) ==
    [tools |-> (t.name :> t) @@ r.tools, order |-> Append(r.order, t.name)]

\* Registry.Register: the registry it leaves behind
Register(r, t) ==
    IF Registered(r, t.name) THEN r
    ELSE [tools |-> (t.name :> t) @@ r.tools, order |-> Append(r.order, t.name)]

\* Registry.Get: the tool in a one-element sequence, <<>> for nil
RegistryGet(r, name) == IF name \in DOMAIN r.tools THEN <<r.tools[name]>> ELSE <<>>

\* ToolDef
ToolDef(t) == [Type |-> "function", Function |-> [Name |-> t.name, Description |-> t.desc]]

\* Registry.Definitions
Definitions(r) == [i \in 1..Len(r.order) |-> ToolDef(r.tools[r.order[i]])]

\* a call of Register, returning or panicking
RegisterCall(t) ==
    /\ registry.pc = "ready"
    /\ registry.calls < MaxRegister
    /\ registry' = [registry EXCEPT
                       !.r = Register(@, t),
                       !.calls = @ + 1,
                       !.panic = RegisterPanic(registry.r, t),
                       !.registered = IF t.name \in {@[i].name : i \in 1..Len(@)}
                                      THEN @ ELSE Append(@, t),
                       !.last = [op |-> "Register", arg |-> <<t>>, val |-> <<>>]]
    /\ UNCHANGED <<restVars, stream, spawn, writer>>

\* a call of Get
GetCall(name) ==
    /\ registry.pc = "ready"
    /\ registry' = [registry EXCEPT
                       !.panic = "",
                       !.last = [op |-> "Get", arg |-> <<name>>,
                                 val |-> RegistryGet(registry.r, name)]]
    /\ UNCHANGED <<restVars, stream, spawn, writer>>

\* a call of Definitions
DefinitionsCall ==
    /\ registry.pc = "ready"
    /\ registry' = [registry EXCEPT
                       !.panic = "",
                       !.last = [op |-> "Definitions", arg |-> <<>>,
                                 val |-> Definitions(registry.r)]]
    /\ UNCHANGED <<restVars, stream, spawn, writer>>

\* NewRegistry, then any calls
InitRegistry ==
    /\ app = [agentBusy |-> FALSE, focus |-> "FocusInput", permReq |-> NoReq,
              quit |-> FALSE]
    /\ input = [disabled |-> FALSE, text |-> ""]
    /\ sidebar = [agentBusy |-> FALSE, toolCalls |-> <<>>]
    /\ chat = [streaming |-> "", messages |-> <<>>]
    /\ wfe = 0
    /\ msgs = {}
    /\ nSent = 0
    /\ events = <<>>
    /\ nEvents = 0
    /\ werr = ""
    /\ respCh = <<>>
    /\ idCounter = 0
    /\ LET w == CHOOSE w \in Wirings : TRUE
       IN  agent = [permission |-> w.permission, stdout |-> w.stdout, stderr |-> w.stderr,
                    history |-> <<>>]
    /\ gor = [g \in Turns |-> IdleGor]
    /\ outBuf = [stdout |-> "", stderr |-> ""]
    /\ env = {}
    /\ log = InitLog
    /\ budget = AgentScenario
    /\ stream = IdleStream
    /\ registry = [IdleRegistry EXCEPT !.pc = "ready"]
    /\ spawn = IdleSpawn
    /\ writer = IdleWriter

NextRegistry ==
    \/ \E t \in MockTools : RegisterCall(t)
    \/ \E name \in GetNames : GetCall(name)
    \/ DefinitionsCall

SpecRegistry == InitRegistry /\ [][NextRegistry]_vars

\* ------------------------------------------------------- the spawn tool
\* the length taskPreview is cut to
TaskPreviewLen == 80

\* a task longer than TaskPreviewLen
LongTask == "Refactor the parser module, update every caller and run the complete test suite twice"

\* the params of the call: not JSON, no task, a short task, a long task
SpawnParams ==
    {[valid |-> FALSE, Task |-> ""], [valid |-> TRUE, Task |-> ""],
     [valid |-> TRUE, Task |-> "fix it"], [valid |-> TRUE, Task |-> LongTask]}

\* taskPreview of Execute
TaskPreview(task) ==
    IF Len(task) > TaskPreviewLen THEN SubSeq(task, 1, TaskPreviewLen) \o "..." ELSE task

\* main.go: the root agent as agent.New leaves it (REPL mode) and after tui.New
\* replaced its writers and its permission handler (TUI mode)
SpawnModes == {"repl", "tui"}
RootAgent(mode) ==
    IF mode = "tui"
    THEN [permission |-> "PermissionInterceptor", stdout |-> "EventWriter",
          stderr |-> "ToolEventWriter", history |-> <<>>]
    ELSE [permission |-> "Checker", stdout |-> "os.Stdout", stderr |-> "os.Stderr",
          history |-> <<>>]

\* SpawnAgentTool.Perm: the Checker main.go hands to NewSpawnAgentTool
SpawnToolPerm == "Checker"

\* the tool call the parent dispatches
SpawnCall == [ID |-> 1, Name |-> "spawn_agent", Arguments |-> "{}"]

\* the rounds and tokens of the child explored
MaxChildRounds == 2
MaxChildTokens == 1

\* fmt.Fprintf(w, text) where w is a writer of the parent or of the child
WriteTo(sp, w, text) ==
    IF w = "ToolEventWriter"
    THEN LET r == ToolEventWriterWrite(sp.bridge.buf, text)
         IN  [sp EXCEPT !.bridge = [events |-> sp.bridge.events \o r.evs, buf |-> r.buf]]
    ELSE IF w = "EventWriter"
    THEN [sp EXCEPT !.bridge.events = Append(@, TokenMsg(text))]
    ELSE IF w = "os.Stderr" THEN [sp EXCEPT !.osStderr = @ \o text]
    ELSE IF w = "os.Stdout" THEN [sp EXCEPT !.osStdout = @ \o text]
    ELSE [sp EXCEPT !.outputBuf = @ \o text]

\* the result texts of Execute
InvalidParamsResult == "Error: invalid parameters: invalid character"
TaskRequiredResult == "Error: task is required"
NoOutputResult == "Sub-agent completed with no output"
SubAgentErrorResult(e) == "Sub-agent error: " \o e
SubAgentCancelledResult == "Sub-agent cancelled: " \o CtxErr
PanicErr == "sub-agent panic: runtime error"

\* executeTool of the parent: the permission was given, "[tool] spawn_agent"
ParentDispatch ==
    /\ spawn.pc = "dispatch"
    /\ spawn' = [WriteTo(spawn, spawn.parent.stderr, "[tool] spawn_agent\n") EXCEPT !.pc = "call"]
    /\ UNCHANGED <<restVars, stream, registry, writer>>

\* Execute up to `go func()`: the params are checked, the spawn line is
\* printed, the child is made and its goroutine started
SpawnExecute ==
    /\ spawn.pc = "call"
    /\ spawn' =
         IF ~spawn.params.valid
         THEN [spawn EXCEPT !.pc = "returned", !.result = InvalidParamsResult, !.err = "nil"]
         ELSE IF spawn.params.Task = ""
         THEN [spawn EXCEPT !.pc = "returned", !.result = TaskRequiredResult, !.err = "nil"]
         ELSE [WriteTo(spawn, "os.Stderr",
                       "[agent] Spawning sub-agent: " \o TaskPreview(spawn.params.Task) \o "\n")
                  EXCEPT !.pc = "select",
                         !.child = [pc |-> "start", permission |-> SpawnToolPerm,
                                    stdout |-> "outputBuf", stderr |-> "os.Stderr",
                                    history |-> <<[Role |-> "system"]>>,
                                    round |-> 0, ntok |-> 0]]
    /\ UNCHANGED <<restVars, stream, registry, writer>>

\* the goroutine's `ch <- result{output: outputBuf.String(), err: err}`
ChildResult(sp, e) ==
    [sp EXCEPT !.child.pc = "done",
               !.ch = Append(@, [output |-> sp.outputBuf, err |-> e])]

\* child.Send: the task is appended to the child's history
ChildSend ==
    /\ spawn.child.pc = "start"
    /\ spawn' = [spawn EXCEPT !.child.pc = "loop",
                              !.child.history = Append(@, [Role |-> "user"])]
    /\ UNCHANGED <<restVars, stream, registry, writer>>

\* the child's loop finds the shared context cancelled
ChildCancelled ==
    /\ spawn.child.pc = "loop"
    /\ spawn.cancelled
    /\ spawn' = ChildResult(spawn, "agent cancelled: " \o CtxErr)
    /\ UNCHANGED <<restVars, stream, registry, writer>>

\* the child's loop sends its request
ChildRequest ==
    /\ spawn.child.pc = "loop"
    /\ ~spawn.cancelled
    /\ spawn.child.round < MaxChildRounds
    /\ spawn' = [spawn EXCEPT !.child.pc = "stream", !.child.round = @ + 1]
    /\ UNCHANGED <<restVars, stream, registry, writer>>

\* a child that prints its tokens on the parent's stdout
ChildToken_ToParent ==
    /\ spawn.child.pc = "stream"
    /\ spawn.child.ntok < MaxChildTokens
    /\ spawn' = [WriteTo(spawn, spawn.parent.stdout, "c") EXCEPT !.child.ntok = @ + 1]
    /\ UNCHANGED <<restVars, stream, registry, writer>>

\* the child's display callback prints a token on the child's stdout
ChildToken ==
    /\ spawn.child.pc = "stream"
    /\ spawn.child.ntok < MaxChildTokens
    /\ spawn' = [WriteTo(spawn, spawn.child.stdout, "c") EXCEPT !.child.ntok = @ + 1]
    /\ UNCHANGED <<restVars, stream, registry, writer>>

\* the child's request fails: child.Send returns the error
ChildStreamFail ==
    /\ spawn.child.pc = "stream"
    /\ spawn' = ChildResult(spawn, "LLM request failed: " \o RequestFailed)
    /\ UNCHANGED <<restVars, stream, registry, writer>>

\* the child's response has no tool calls: message appended, newline printed,
\* child.Send returns nil
ChildStreamText ==
    /\ spawn.child.pc = "stream"
    /\ LET sp == [WriteTo(spawn, spawn.child.stdout, "\n")
                     EXCEPT !.child.history = Append(@, [Role |-> "assistant"])]
       IN  spawn' = ChildResult(sp, "")
    /\ UNCHANGED <<restVars, stream, registry, writer>>

\* the child's response asks for a requires-approval tool: the child's
\* permission handler is asked (Checker.Check prints its prompt on os.Stderr,
\* PermissionInterceptor.Check posts a request on the bridge)
ChildCheck ==
    /\ spawn.child.pc = "stream"
    /\ LET sp == [spawn EXCEPT !.child.pc = "check",
                               !.child.history = Append(@, [Role |-> "assistant"]),
                               !.asked = Append(@, spawn.child.permission)]
       IN  spawn' =
             IF spawn.child.permission = "Checker"
             THEN WriteTo(sp, "os.Stderr", "\n[permission] shell_exec\nshell_exec({})\n[y/n]: ")
             ELSE [sp EXCEPT !.bridge.events =
                      Append(@, PermissionRequestMsg(generateID(1), "shell_exec",
                                                     "shell_exec({})", 1))]
    /\ UNCHANGED <<restVars, stream, registry, writer>>

\* the answer arrives: the tool runs or is refused, the result is appended to
\* the child's history
ChildAnswer(b) ==
    /\ spawn.child.pc = "check"
    /\ LET line == IF b THEN "[tool] shell_exec\n[tool:done] shell_exec\n"
                   ELSE "[tool] shell_exec: permission denied\n"
       IN  spawn' = [WriteTo(spawn, spawn.child.stderr, line)
                        EXCEPT !.child.pc = "loop",
                               !.child.history = Append(@, [Role |-> "tool"])]
    /\ UNCHANGED <<restVars, stream, registry, writer>>

\* a panic of the child that nothing recovers
ChildPanic_Unrecovered ==
    /\ spawn.child.pc \in {"start", "loop", "stream"}
    /\ spawn' = [spawn EXCEPT !.child.pc = "done", !.pc = "crashed"]
    /\ UNCHANGED <<restVars, stream, registry, writer>>

\* child.Send panics: the deferred recover sends the panic as the result
ChildPanic ==
    /\ spawn.child.pc \in {"start", "loop", "stream"}
    /\ spawn' = [spawn EXCEPT !.child.pc = "done",
                              !.ch = Append(@, [output |-> "", err |-> PanicErr])]
    /\ UNCHANGED <<restVars, stream, registry, writer>>

\* the select of Execute, case r := <-ch
SelectResult ==
    /\ spawn.pc = "select"
    /\ spawn.ch # <<>>
    /\ LET r == Head(spawn.ch)
           sp == WriteTo(spawn, "os.Stderr", "[agent] Sub-agent completed\n")
       IN  spawn' = [sp EXCEPT !.pc = "returned", !.ch = Tail(@), !.err = "nil",
                               !.result = IF r.err # "" THEN SubAgentErrorResult(r.err)
                                          ELSE IF r.output = "" THEN NoOutputResult
                                          ELSE r.output]
    /\ UNCHANGED <<restVars, stream, registry, writer>>

\* the select of Execute, case <-ctx.Done()
SelectCancelled ==
    /\ spawn.pc = "select"
    /\ spawn.cancelled
    /\ spawn' = [spawn EXCEPT !.pc = "returned", !.err = "nil",
                              !.result = SubAgentCancelledResult]
    /\ UNCHANGED <<restVars, stream, registry, writer>>

\* the REPL's signal handler cancels the context; the TUI runs the turn under
\* context.Background()
CancelSpawnCtx ==
    /\ spawn.mode = "repl"
    /\ spawn.pc \in {"dispatch", "call", "select"}
    /\ ~spawn.cancelled
    /\ spawn' = [spawn EXCEPT !.cancelled = TRUE]
    /\ UNCHANGED <<restVars, stream, registry, writer>>

\* executeTool and Agent.loop of the parent after Execute returned: the done
\* line, then the tool message
ParentAppend ==
    /\ spawn.pc = "returned"
    /\ LET sp == IF spawn.err # "nil"
                 THEN WriteTo(spawn, spawn.parent.stderr, "[tool:error] spawn_agent\n")
                 ELSE WriteTo(spawn, spawn.parent.stderr, "[tool:done] spawn_agent\n")
           res == IF spawn.err # "nil" THEN ToolErrorResult(spawn.err) ELSE spawn.result
       IN  spawn' = [sp EXCEPT !.pc = "appended",
                               !.parent.history = Append(@, ToolMessage(SpawnCall, res))]
    /\ UNCHANGED <<restVars, stream, registry, writer>>

\* the root agent of either mode about to run an approved spawn_agent call
InitSpawn ==
    /\ app = [agentBusy |-> FALSE, focus |-> "FocusInput", permReq |-> NoReq,
              quit |-> FALSE]
    /\ input = [disabled |-> FALSE, text |-> ""]
    /\ sidebar = [agentBusy |-> FALSE, toolCalls |-> <<>>]
    /\ chat = [streaming |-> "", messages |-> <<>>]
    /\ wfe = 0
    /\ msgs = {}
    /\ nSent = 0
    /\ events = <<>>
    /\ nEvents = 0
    /\ werr = ""
    /\ respCh = <<>>
    /\ idCounter = 0
    /\ LET w == CHOOSE w \in Wirings : TRUE
       IN  agent = [permission |-> w.permission, stdout |-> w.stdout, stderr |-> w.stderr,
                    history |-> <<>>]
    /\ gor = [g \in Turns |-> IdleGor]
    /\ outBuf = [stdout |-> "", stderr |-> ""]
    /\ env = {}
    /\ log = InitLog
    /\ budget = AgentScenario
    /\ stream = IdleStream
    /\ registry = IdleRegistry
    /\ writer = IdleWriter
    /\ \E m \in SpawnModes, p \in SpawnParams :
           spawn = [IdleSpawn EXCEPT !.pc = "dispatch", !.mode = m, !.params = p,
                                     !.parent = RootAgent(m)]

NextSpawn ==
    \/ ParentDispatch
    \/ SpawnExecute
    \/ ChildSend
    \/ ChildCancelled
    \/ ChildRequest
    \/ ChildToken
    \/ ChildStreamFail
    \/ ChildStreamText
    \/ ChildCheck
    \/ \E b \in BOOLEAN : ChildAnswer(b)
    \/ ChildPanic
    \/ SelectResult
    \/ SelectCancelled
    \/ CancelSpawnCtx
    \/ ParentAppend

SpecSpawn == InitSpawn /\ [][NextSpawn]_vars

\* ------------------------------------- two pending permission requests
\* the requesters explored: two Sends that overlap on the root agent
Requesters == {1, 2}

\* the tool call requester g is about to dispatch
PromptCall(g) == [ID |-> g, Name |-> "shell_exec", Arguments |-> CallArgs]

\* The interactive program after two messages were sent before the first
\* SendMsg was handled and the response of each turn asked for shell_exec:
\* both goroutines are in Agent.loop about to call executeTool
InitPending ==
    /\ app = [agentBusy |-> TRUE, focus |-> "FocusInput", permReq |-> NoReq,
              quit |-> FALSE]
    /\ input = [disabled |-> TRUE, text |-> ""]
    /\ sidebar = [agentBusy |-> TRUE, toolCalls |-> <<>>]
    /\ chat = [streaming |-> "",
               messages |-> <<ChatMessage("user", "a"), ChatMessage("user", "a")>>]
    /\ wfe = InitWaitForEvent + SendMsgWaitForEvent + SendMsgWaitForEvent
    /\ msgs = {}
    /\ nSent = 2
    /\ events = <<>>
    /\ nEvents = 0
    /\ werr = ""
    /\ respCh = <<>>
    /\ idCounter = 0
    /\ agent = [permission |-> "PermissionInterceptor", stdout |-> "EventWriter",
                stderr |-> "ToolEventWriter",
                history |-> <<[Role |-> "system", Content |-> "prompt",
                               ToolCalls |-> <<>>, ToolCallID |-> 0, Name |-> ""],
                              UserMessage("msg"),
                              AssistantMessage("", <<PromptCall(1)>>),
                              UserMessage("msg"),
                              AssistantMessage("", <<PromptCall(2)>>)>>]
    /\ gor = [g \in Turns |->
                IF g \in Requesters
                THEN [IdleGor EXCEPT !.pc = "dispatch", !.round = 1,
                                     !.calls = <<PromptCall(g)>>, !.i = 1]
                ELSE IdleGor]
    /\ outBuf = [stdout |-> "", stderr |-> ""]
    /\ env = {}
    /\ log = [InitLog EXCEPT !.nCalls = 2, !.started = Requesters]
    /\ budget = [turns |-> 2, calls |-> 2, tokens |-> 0]
    /\ stream = IdleStream
    /\ registry = IdleRegistry
    /\ spawn = IdleSpawn
    /\ writer = IdleWriter

\* the steps from executeTool asking for permission to the end of the call,
\* and the front end's handling of the events and keys in between
NextPending ==
    \/ \E k \in Keys : UpdateKeyMsg(k)
    \/ \E m \in msgs : UpdateToolStartMsg(m)
    \/ \E m \in msgs : UpdatePermissionRequestMsg(m)
    \/ WaitForEvent
    \/ \E g \in Turns : DispatchPrompt(g)
    \/ \E g \in Turns : CheckDenied(g)
    \/ \E g \in Turns : CheckAllowed(g)
    \/ \E g \in Turns : ExecuteDone(g)
    \/ \E g \in Turns : ExecuteError(g)

SpecPending == InitPending /\ [][NextPending]_vars

\* ------------------------------------------------- a turn under fairness
\* one interactive turn with tool calls
TurnScenario == [turns |-> 1, calls |-> MaxCalls, tokens |-> MaxTokens]

\* tui.New on the root agent of main.go, then App.Init
InitTurn ==
    /\ app = [agentBusy |-> FALSE, focus |-> "FocusInput", permReq |-> NoReq,
              quit |-> FALSE]
    /\ input = [disabled |-> FALSE, text |-> ""]
    /\ sidebar = [agentBusy |-> FALSE, toolCalls |-> <<>>]
    /\ chat = [streaming |-> "", messages |-> <<>>]
    /\ wfe = InitWaitForEvent
    /\ msgs = {}
    /\ nSent = 0
    /\ events = <<>>
    /\ nEvents = 0
    /\ werr = ""
    /\ respCh = <<>>
    /\ idCounter = 0
    /\ agent = [permission |-> "PermissionInterceptor", stdout |-> "EventWriter",
                stderr |-> "ToolEventWriter",
                history |-> <<[Role |-> "system", Content |-> "prompt",
                               ToolCalls |-> <<>>, ToolCallID |-> 0, Name |-> ""]>>]
    /\ gor = [g \in Turns |-> IdleGor]
    /\ outBuf = [stdout |-> "", stderr |-> ""]
    /\ env = {}
    /\ log = InitLog
    /\ budget = TurnScenario
    /\ stream = IdleStream
    /\ registry = IdleRegistry
    /\ spawn = IdleSpawn
    /\ writer = IdleWriter

\* the goroutine of turn g is able to take its next step: it is inside Send,
\* not waiting for a decision in Check, and the bridge channel has room
CanStep(g) ==
    /\ Running
    /\ Len(events) < EventsCap
    /\ \/ gor[g].pc \in {"Send", "stream", "dispatch", "exec"}
       \/ gor[g].pc = "loop" /\ ~gor[g].cancelled /\ gor[g].round < MaxRounds
       \/ gor[g].pc = "check" /\ CheckReturns(g) # {}

\* the operator answers the permission request the front end shows
AnswerKey == UpdateKeyMsg("y") \/ UpdateKeyMsg("n")

\* The Go scheduler runs every goroutine that can take a step, the Bubble Tea
\* runtime runs every command and hands every message to App.Update, and the
\* operator answers every permission request shown.
Fairness ==
    /\ \A g \in Turns : ([]<>(~CanStep(g)) \/ []<><<AgentStep(g)>>_vars)
    /\ \A g \in Turns : WF_vars(RunAgentDone(g))
    /\ WF_vars(WaitForEvent)
    /\ WF_vars(\E m \in msgs : UpdateSendMsg(m))
    /\ WF_vars(\E m \in msgs : UpdateTokenMsg(m))
    /\ WF_vars(\E m \in msgs : UpdateToolStartMsg(m))
    /\ WF_vars(\E m \in msgs : UpdatePermissionRequestMsg(m))
    /\ WF_vars(\E m \in msgs : UpdateAgentDoneMsg(m))
    /\ WF_vars(AnswerKey)

SpecFair == InitTurn /\ [][Next]_vars /\ Fairness

\* ------------------------------------------- ToolEventWriter on its own
\* the diagnostic byte streams written: started, denied and unknown tools,
\* done and error lines, sub-agent lines, blank and padded lines, a last line
\* without its newline
StderrTexts ==
    {"[tool] a\n[tool:done] a\n[tool] b\n",
     "[tool] x: permission denied\n\n [tool] c \n[too",
     "[agent] Spawning sub-agent: t\n[agent] Sub-agent completed\n",
     "[tool] Unknown tool: z\n[tool:error] a\n\n[tool] d"}

\* w.Write(p) with p the next n bytes of the stream
WriterWrite(n) ==
    /\ writer.pc = "open"
    /\ n \in 1..(Len(writer.text) - writer.pos)
    /\ LET p == SubSeq(writer.text, writer.pos + 1, writer.pos + n)
           r == ToolEventWriterWrite(writer.buf, p)
       IN  writer' = [writer EXCEPT !.pos = @ + n, !.writes = @ + 1, !.buf = r.buf,
                                    !.events = @ \o r.evs]
    /\ UNCHANGED <<restVars, stream, registry, spawn>>

\* a ToolEventWriter on an empty buffer and one of the byte streams to write
InitWriter ==
    /\ app = [agentBusy |-> FALSE, focus |-> "FocusInput", permReq |-> NoReq,
              quit |-> FALSE]
    /\ input = [disabled |-> FALSE, text |-> ""]
    /\ sidebar = [agentBusy |-> FALSE, toolCalls |-> <<>>]
    /\ chat = [streaming |-> "", messages |-> <<>>]
    /\ wfe = 0
    /\ msgs = {}
    /\ nSent = 0
    /\ events = <<>>
    /\ nEvents = 0
    /\ werr = ""
    /\ respCh = <<>>
    /\ idCounter = 0
    /\ LET w == CHOOSE w \in Wirings : TRUE
       IN  agent = [permission |-> w.permission, stdout |-> w.stdout, stderr |-> w.stderr,
                    history |-> <<>>]
    /\ gor = [g \in Turns |-> IdleGor]
    /\ outBuf = [stdout |-> "", stderr |-> ""]
    /\ env = {}
    /\ log = InitLog
    /\ budget = AgentScenario
    /\ stream = IdleStream
    /\ registry = IdleRegistry
    /\ spawn = IdleSpawn
    /\ \E t \in StderrTexts : writer = [IdleWriter EXCEPT !.pc = "open", !.text = t]

NextWriter == \E n \in 1..Len(writer.text) : WriterWrite(n)

SpecWriter == InitWriter /\ [][NextWriter]_vars

\* ------------------------------------------- sentinels across deltas
\* a response whose content is cut into deltas anywhere: a sentinel in two
\* halves, and a sentinel inside the two halves of another
SplitContents == {"a", "<|im_", "end|>", "<|im_<|im_end|>end|>"}
SplitChunks ==
    {ChatCompletionChunk(<<ChunkChoice(MessageDelta("", c, <<>>))>>) : c \in SplitContents}
        \cup {ChatCompletionChunk(<<ChunkChoice(MessageDelta("", "", <<StartFragment(0)>>))>>)}
SplitLines == {BlankLine, DoneLine, BadLine} \cup {DataLine(c) : c \in SplitChunks}
SplitBodies == UNION {[1..n -> SplitLines] : n \in 0..MaxLines}

\* a 200 response with any body of at most MaxLines of these lines
InitSplit ==
    /\ app = [agentBusy |-> FALSE, focus |-> "FocusInput", permReq |-> NoReq,
              quit |-> FALSE]
    /\ input = [disabled |-> FALSE, text |-> ""]
    /\ sidebar = [agentBusy |-> FALSE, toolCalls |-> <<>>]
    /\ chat = [streaming |-> "", messages |-> <<>>]
    /\ wfe = 0
    /\ msgs = {}
    /\ nSent = 0
    /\ events = <<>>
    /\ nEvents = 0
    /\ werr = ""
    /\ respCh = <<>>
    /\ idCounter = 0
    /\ LET w == CHOOSE w \in Wirings : TRUE
       IN  agent = [permission |-> w.permission, stdout |-> w.stdout, stderr |-> w.stderr,
                    history |-> <<>>]
    /\ gor = [g \in Turns |-> IdleGor]
    /\ outBuf = [stdout |-> "", stderr |-> ""]
    /\ env = {}
    /\ log = InitLog
    /\ budget = AgentScenario
    /\ \E b \in SplitBodies, r \in BOOLEAN :
           stream = [IdleStream EXCEPT !.pc = "scan", !.body = b, !.readErr = r]
    /\ registry = IdleRegistry
    /\ spawn = IdleSpawn
    /\ writer = IdleWriter

SpecSplit == InitSplit /\ [][NextStream]_vars

\* ---------------------------------------------------------------- claims
\* a channel event received by a WaitForEvent command and not yet handled
Delivering == {m \in msgs : FromChannel(m)}

\* C1 -- single-reader invariant: in every state reachable from App.Init at most
\* one WaitForEvent command is outstanding on the bridge channel (blocked on the
\* receive, or carrying an event App.Update has not handled yet); handling
\* SendMsg arms no second reader.
C1_SingleReader == wfe + Cardinality(Delivering) <= 1

\* C2 -- within one turn the TokenMsg events are applied to the streaming buffer
\* in the order the agent wrote them to the channel, none twice.
C2_TokenOrder ==
    \A i, j \in 1..Len(log.applied) :
        (i < j /\ log.applied[i].turn = log.applied[j].turn)
            => log.applied[i].seq < log.applied[j].seq

\* a token or tool-activity event of turn g that App.Update has not handled
Unhandled(g) ==
    {e \in {events[i] : i \in 1..Len(events)} \cup Delivering :
        e.turn = g /\ e.ev.type \in {"TokenMsg", "ToolStartMsg"}}

\* the AgentDoneMsg of turn g, computed and not yet handled
DoneInFlight(g) ==
    {m \in msgs : ~FromChannel(m) /\ m.ev.type = "AgentDoneMsg" /\ m.ev.turn = g}

\* C3 (as stated) -- AgentDoneMsg of a turn is handled only after every token
\* and tool-activity event of that turn has been handled.
C3_DoneAfterEventsHandled == \A g \in log.doneHandled : Unhandled(g) = {}

\* C3 (amended) -- AgentDoneMsg of a turn exists only after Agent.Send of that
\* turn returned, carrying its error: every event of the turn is then written to
\* the channel, though it may still be unhandled when AgentDoneMsg is handled.
C3_DoneAfterSendReturned ==
    \A g \in Turns :
        /\ \A m \in DoneInFlight(g) : gor[g].pc = "done" /\ m.ev.Error = gor[g].err
        /\ g \in log.doneHandled => gor[g].pc = "done"

\* turn g was finalized while one of its tokens was still to be handled
C3_Witness ==
    \E g \in log.doneHandled :
        /\ gor[g].pc = "done"
        /\ \E e \in Unhandled(g) : e.ev.type = "TokenMsg"

\* C4 -- at most one turn is in flight: no second Agent.Send is started before
\* the AgentDoneMsg of the first has been handled.
C4_OneTurnInFlight == Cardinality(log.started \ log.doneHandled) <= 1

\* the goroutine of turn g is inside PermissionInterceptor.Check and its
\* acknowledgment channel holds nothing
BlockedInCheck(g) ==
    /\ gor[g].pc = "check"
    /\ agent.permission = "PermissionInterceptor"
    /\ respCh[gor[g].ch] = <<>>

\* C5 -- permission handshake: every Check posts exactly one PermissionRequestMsg
\* with a fresh acknowledgment channel; the agent goroutine cannot leave Check
\* while the channel is empty and the event loop keeps handling keys meanwhile;
\* the front end writes true for allow and false for deny, once; Check returns
\* exactly the value written.
C5_Handshake ==
    /\ Len(log.posted) = Cardinality(log.called)
    /\ \A i, j \in 1..Len(log.posted) : i # j => log.posted[i] # log.posted[j]
    /\ \A g \in Turns : BlockedInCheck(g) =>
            /\ ~ENABLED (CheckAllowed(g) \/ CheckDenied(g))
            /\ Running => ENABLED UpdateKeyMsg("tab")
    /\ \A ch \in 1..Len(log.written) :
            /\ Len(log.written[ch]) <= 1
            /\ \A i \in 1..Len(log.written[ch]) :
                   log.written[ch][i].val = (log.written[ch][i].key = "y")
    /\ \A c \in log.checks :
            /\ Len(log.written[c.ch]) = 1
            /\ c.ret = log.written[c.ch][1].val

\* one Check returned true after the operator pressed allow and another
\* returned false after the operator pressed deny
C5_Witness ==
    /\ \E c \in log.checks : c.ret /\ log.written[c.ch][1].key = "y"
    /\ \E c \in log.checks : ~c.ret /\ log.written[c.ch][1].key = "n"

\* C6 -- when the operator quits while a permission request is pending, the
\* pending acknowledgment channel has been resolved with false by the time the
\* program quits, so the goroutine blocked in Check is released.
C6_QuitResolvesPending ==
    (app.quit /\ app.permReq # NoReq) =>
        \E i \in 1..Len(log.written[app.permReq.Response]) :
            log.written[app.permReq.Response][i].val = FALSE

\* C7 -- once the context of a turn is cancelled, the Send of that turn goes on
\* towards its return with the cancellation error, also when it is inside
\* PermissionInterceptor.Check and no decision has been given: a cancelled
\* Send inside Check is able to leave it.
C7_CancelReleasesCheck ==
    \A g \in Turns :
        (gor[g].cancelled /\ gor[g].pc = "check")
            => ENABLED (CheckAllowed(g) \/ CheckDenied(g))

\* the messages of a.history
History == {agent.history[i] : i \in 1..Len(agent.history)}

\* the step of turn g leaves it inside its loop over the tool calls or back at
\* the top of Agent.loop, with no error
Continues(g) ==
    /\ gor'[g].err = ""
    /\ gor'[g].pc = IF gor[g].i < Len(gor[g].calls) THEN "dispatch" ELSE "loop"

\* C8 -- a requires-approval tool whose permission handler returned false: the
\* result is "Permission denied by user", Execute is never invoked for that
\* call, the result is appended as a tool-role message, and the turn continues
\* without a turn-level error.
C8_DeniedNeverExecutes ==
    /\ [](\A c \in log.checks : ~c.ret =>
            /\ RegistryTools[c.call.Name] = "PermissionPrompt"
            /\ c.call \notin log.execs
            /\ \E m \in History :
                   /\ m.Role = "tool" /\ m.ToolCallID = c.call.ID
                   /\ m.Name = c.call.Name
                   /\ m.Content = "Permission denied by user")
    /\ [][\A g \in Turns : CheckDenied(g) =>
            /\ Len(agent'.history) = Len(agent.history) + 1
            /\ agent'.history[Len(agent'.history)].Content = "Permission denied by user"
            /\ log'.execs = log.execs
            /\ Continues(g)]_vars

\* a Send whose tool call was denied returned nil
C8_Witness ==
    \E c \in log.checks, g \in Turns :
        /\ ~c.ret
        /\ gor[g].pc = "returned" /\ gor[g].err = ""
        /\ \E m \in History : m.ToolCallID = c.call.ID /\ m.Role = "tool"

\* C9 -- Execute of a requires-approval tool is preceded by a Check for that
\* same call that returned true; an auto-allow tool is executed without the
\* permission handler ever being called.
C9_CheckBeforeExecute ==
    /\ \A c \in log.execs :
          /\ RegistryTools[c.Name] = "PermissionPrompt" =>
                 \E k \in log.checks : k.call = c /\ k.ret
          /\ RegistryTools[c.Name] = "PermissionAuto" => c \notin log.called
    /\ \A c \in log.called : RegistryTools[c.Name] = "PermissionPrompt"
    /\ \A k \in log.checks : k.call \in log.called

\* a requires-approval tool and an auto-allow tool were both executed
C9_Witness ==
    /\ \E c \in log.execs : c.Name = "shell_exec"
    /\ \E c \in log.execs : c.Name = "read_file"

\* C10 -- a tool call whose name is not registered: the result text contains the
\* name, it is appended as a tool-role message with the call's id and name,
\* neither the permission handler nor a tool is invoked, Send does not fail and
\* the loop goes on to the next call or the next completion request.
C10_UnknownTool ==
    [][\A g \in Turns : DispatchUnknown(g) =>
          LET tc == Current(g)
              m == agent'.history[Len(agent'.history)]
          IN  /\ tc.Name \notin DOMAIN RegistryTools
              /\ Len(agent'.history) = Len(agent.history) + 1
              /\ m.Role = "tool" /\ m.ToolCallID = tc.ID /\ m.Name = tc.Name
              /\ Contains(m.Content, tc.Name)
              /\ log'.called = log.called /\ log'.checks = log.checks
              /\ log'.execs = log.execs
              /\ Continues(g)]_vars

\* after an unknown tool was dispatched the next completion request was made
\* and Send returned nil
C10_Witness ==
    \E g \in Turns :
        /\ gor[g].pc = "returned" /\ gor[g].err = "" /\ gor[g].round = 2
        /\ \E m \in History :
               m.Role = "tool" /\ m.Content = "Unknown tool: nonexistent_tool"

\* C11 -- an error returned by a tool's Execute never makes Send fail: it
\* becomes a tool-role message whose content starts with "Tool error: ",
\* appended to the history, and the loop goes on with the next call or the next
\* completion request.
C11_ToolErrorContinues ==
    /\ [](\A g \in Turns : ~HasPrefix(gor[g].err, "Tool error"))
    /\ [][\A g \in Turns : ExecuteError(g) =>
            LET m == agent'.history[Len(agent'.history)]
            IN  /\ Len(agent'.history) = Len(agent.history) + 1
                /\ m.Role = "tool" /\ m.ToolCallID = Current(g).ID
                /\ m.Name = Current(g).Name
                /\ HasPrefix(m.Content, "Tool error: ")
                /\ Continues(g)]_vars

\* a Send one of whose tools failed went on to the next completion request and
\* returned nil
C11_Witness ==
    \E g \in Turns :
        /\ gor[g].pc = "returned" /\ gor[g].err = "" /\ gor[g].round = 2
        /\ \E m \in History : m.Role = "tool" /\ HasPrefix(m.Content, "Tool error: ")

\* every assistant message of h that carries tool calls is directly followed by
\* one tool message per call, in call order, with the call's id and name
ResultsComplete(h) ==
    \A i \in 1..Len(h) :
        (h[i].Role = "assistant" /\ h[i].ToolCalls # <<>>) =>
            LET n == Len(h[i].ToolCalls)
            IN  /\ i + n <= Len(h)
                /\ \A k \in 1..n :
                       /\ h[i + k].Role = "tool"
                       /\ h[i + k].ToolCallID = h[i].ToolCalls[k].ID
                       /\ h[i + k].Name = h[i].ToolCalls[k].Name
                /\ i + n < Len(h) => h[i + n + 1].Role # "tool"

\* the step appends an assistant message
AppendsAssistant ==
    /\ Len(agent'.history) = Len(agent.history) + 1
    /\ agent'.history[Len(agent'.history)].Role = "assistant"

C13_CancelledAtLoopStart ==
    [][\A g \in Turns :
          (gor[g].pc = "loop" /\ gor[g].cancelled /\ gor'[g] # gor[g]) =>
              /\ gor'[g].pc = "returned"
              /\ HasPrefix(gor'[g].err, "agent cancelled: ")
              /\ Contains(gor'[g].err, CtxErr)
              /\ gor'[g].round = gor[g].round]_vars

\* a Send whose context was cancelled before its first iteration returned the
\* cancellation error without any completion request
C13_Witness ==
    \E g \in Turns :
        /\ gor[g].pc = "returned" /\ gor[g].cancelled /\ gor[g].round = 0
        /\ gor[g].err = "agent cancelled: context canceled"

\* the goroutine of turn g is inside the loop over msg.ToolCalls
InToolLoop(g) == gor[g].pc \in {"dispatch", "check", "exec"}

\* the step of turn g ends the dispatch of its current tool call
FinishesCall(g) ==
    /\ InToolLoop(g)
    /\ gor'[g].pc \in {"dispatch", "loop"}
    /\ gor'[g].i # gor[g].i

\* C14 -- the context is cancelled while a tool call is being dispatched: the
\* call in progress completes and its result is appended to the history; the
\* turn returns the cancellation error at the next loop iteration and issues no
\* further completion request.
C14_CancelDuringDispatch ==
    [][\A g \in Turns : (gor[g].cancelled /\ gor[g].at \in {"dispatch", "check", "exec"}) =>
          /\ gor'[g].round = gor[g].round
          /\ InToolLoop(g) => gor'[g].pc \in {"dispatch", "check", "exec", "loop"}
          /\ FinishesCall(g) =>
                 LET m == agent'.history[Len(agent'.history)]
                 IN  /\ Len(agent'.history) = Len(agent.history) + 1
                     /\ m.Role = "tool" /\ m.ToolCallID = Current(g).ID
                     /\ m.Name = Current(g).Name
          /\ (gor[g].pc = "loop" /\ gor'[g] # gor[g]) =>
                 /\ gor'[g].pc = "returned"
                 /\ gor'[g].err = "agent cancelled: " \o CtxErr
                 /\ ResultsComplete(agent'.history)]_vars

\* a Send cancelled while its tool ran returned the cancellation error after
\* the tool's result was appended
C14_Witness ==
    \E g \in Turns :
        /\ gor[g].pc = "returned" /\ gor[g].at = "exec"
        /\ gor[g].err = "agent cancelled: context canceled"
        /\ agent.history[Len(agent.history)].Role = "tool"

\* the step is the return of ChatCompletionStream with an error in turn g
FailsStream(g) ==
    /\ gor[g].pc = "stream"
    /\ gor'[g].pc = "returned"
    /\ gor'[g].err # ""

\* C15 -- a transport failure, a non-success status or a malformed frame fails
\* the whole turn: Send returns an error with no second request (the goroutine
\* never goes from the stream back to the top of its loop, and a returned Send
\* sends nothing more) and with the history untouched, and the
\* AgentDoneMsg of that turn carries the error and its handling clears the
\* busy state.
C15_StreamFailureFailsTurn ==
    [][/\ \A g \in Turns :
            /\ gor[g].pc = "stream" => gor'[g].pc \in {"stream", "returned", "dispatch"}
            /\ gor'[g].round # gor[g].round => gor[g].pc = "loop" /\ gor[g].err = ""
            /\ FailsStream(g) =>
                   /\ HasPrefix(gor'[g].err, "LLM request failed: ")
                   /\ \E e \in StreamErrors : gor'[g].err = "LLM request failed: " \o e
                   /\ gor'[g].round = gor[g].round
                   /\ agent'.history = agent.history
            /\ gor[g].pc \in {"returned", "done"} =>
                   /\ gor'[g].pc \in {"returned", "done"}
                   /\ gor'[g].round = gor[g].round
                   /\ gor'[g].err = gor[g].err
            /\ (gor[g].pc = "returned" /\ gor'[g].pc = "done") =>
                   \E m \in msgs' \ msgs :
                       /\ m.ev.type = "AgentDoneMsg" /\ m.ev.turn = g
                       /\ m.ev.Error = gor[g].err
       /\ \A m \in msgs \ msgs' :
            (m.ev.type = "AgentDoneMsg" /\ m.ev.Error # "") =>
                /\ ~app'.agentBusy
                /\ ~input'.disabled
                /\ ~sidebar'.agentBusy
                /\ \E i \in 1..Len(chat'.messages) :
                       chat'.messages[i] = ChatMessage("system", "Error: " \o m.ev.Error)]_vars

\* a turn whose stream broke on a malformed frame after one request: its
\* AgentDoneMsg was handled, the error is shown, the front end is idle and no
\* assistant message is in the history
C15_Witness ==
    \E g \in Turns :
        /\ g \in log.doneHandled
        /\ gor[g].err = "LLM request failed: " \o FrameFailed
        /\ gor[g].round = 1
        /\ ~app.agentBusy /\ ~input.disabled /\ ~sidebar.agentBusy
        /\ \A m \in History : m.Role # "assistant"
        /\ \E i \in 1..Len(chat.messages) :
               chat.messages[i] = ChatMessage("system", "Error: " \o gor[g].err)

\* the chunks acc.Add was called with so far, in the order of the calls
RECURSIVE ChunksOf(_)
ChunksOf(ord) ==
    IF ord = <<>> THEN <<>>
    ELSE (IF Head(ord).op = "Add" THEN <<stream.body[Head(ord).k].json[1]>> ELSE <<>>)
             \o ChunksOf(Tail(ord))
Folded == ChunksOf(stream.order)

\* the deltas of a sequence of chunks, choice by choice
RECURSIVE DeltasOf(_)
DeltasOf(chunks) ==
    IF chunks = <<>> THEN <<>>
    ELSE [i \in 1..Len(Head(chunks).Choices) |-> Head(chunks).Choices[i].Delta]
             \o DeltasOf(Tail(chunks))

\* the content fragments of a sequence of deltas, concatenated
RECURSIVE ConcatContent(_)
ConcatContent(ds) ==
    IF ds = <<>> THEN "" ELSE Head(ds).Content \o ConcatContent(Tail(ds))

\* no delta of the sequence carries a tool-call fragment
TextOnly(ds) == \A i \in 1..Len(ds) : ds[i].ToolCalls = <<>>

\* C16 -- deltas without tool-call fragments: the content of Message() is the
\* concatenation of their content fragments in the order of the Add calls,
\* with nothing stripped or trimmed, and it is the content the accumulator
\* gives when the same text arrives in one delta.
C16_TextOnlyContent ==
    LET ds == DeltasOf(Folded)
        whole == ChatCompletionChunk(<<ChunkChoice(MessageDelta("", ConcatContent(ds), <<>>))>>)
    IN  TextOnly(ds) =>
            /\ Message(stream.acc).Content = ConcatContent(ds)
            /\ Message(stream.acc).ToolCalls = <<>>
            /\ Message(Add(NewDeltaAccumulator, whole)).Content = Message(stream.acc).Content

\* three text deltas (a blank, a special token, a JSON blob) returned as they came
C16_Witness ==
    /\ stream.pc = "returned"
    /\ Len(Folded) = 3 /\ TextOnly(DeltasOf(Folded))
    /\ stream.msg # <<>>
    /\ stream.msg[1].Content = " <|im_end|>{}"

\* the tool-call fragments of a sequence of deltas, in arrival order
RECURSIVE FragmentsOf(_)
FragmentsOf(ds) ==
    IF ds = <<>> THEN <<>> ELSE Head(ds).ToolCalls \o FragmentsOf(Tail(ds))

\* the argument fragments of index idx, concatenated in arrival order
RECURSIVE ArgumentsOf(_, _)
ArgumentsOf(fs, idx) ==
    IF fs = <<>> THEN ""
    ELSE (IF Head(fs).Index = idx THEN Head(fs).Function.Arguments ELSE "")
             \o ArgumentsOf(Tail(fs), idx)

\* the last non-empty id a fragment of index idx carried
RECURSIVE LastID(_, _, _)
LastID(fs, idx, id) ==
    IF fs = <<>> THEN id
    ELSE LastID(Tail(fs), idx,
                IF Head(fs).Index = idx /\ Head(fs).ID # "" THEN Head(fs).ID ELSE id)

\* a set of indices in ascending order
RECURSIVE Ascending(_)
Ascending(S) ==
    IF S = {} THEN <<>>
    ELSE LET lo == CHOOSE i \in S : \A j \in S : i <= j
         IN  <<lo>> \o Ascending(S \ {lo})

\* C17 -- whatever the arrival order of the tool-call fragments, the tool-call
\* list of Message() has one entry per distinct fragment index seen, in
\* ascending index order with the unused indices skipped, and each entry's
\* arguments are that index's argument fragments concatenated in arrival order.
C17_ToolCallsByIndex ==
    LET fs == FragmentsOf(DeltasOf(Folded))
        seen == Ascending({fs[i].Index : i \in 1..Len(fs)})
        calls == Message(stream.acc).ToolCalls
    IN  /\ Len(calls) = Len(seen)
        /\ \A k \in 1..Len(seen) :
              /\ calls[k].Function.Arguments = ArgumentsOf(fs, seen[k])
              /\ calls[k].ID = LastID(fs, seen[k], "")

\* fragments of indices 0, 1, 0: two entries, index 0 first with both of its
\* argument fragments
C17_Witness ==
    LET fs == FragmentsOf(DeltasOf(Folded))
    IN  /\ stream.pc = "returned" /\ stream.msg # <<>>
        /\ [i \in 1..Len(fs) |-> fs[i].Index] = <<0, 1, 0>>
        /\ Len(stream.msg[1].ToolCalls) = 2
        /\ stream.msg[1].ToolCalls[1].ID = "call_0"
        /\ stream.msg[1].ToolCalls[1].Function.Arguments = "xy"
        /\ stream.msg[1].ToolCalls[2].ID = "call_1"
        /\ stream.msg[1].ToolCalls[2].Function.Arguments = "x"

\* the text of the deltas that carry no tool-call fragment, special tokens
\* removed, in order
RECURSIVE VisibleText(_)
VisibleText(ds) ==
    IF ds = <<>> THEN ""
    ELSE (IF Head(ds).ToolCalls = <<>> THEN stripSpecialTokens(Head(ds).Content) ELSE "")
             \o VisibleText(Tail(ds))

\* C18 -- the display callback of Agent.loop prints nothing for a delta that
\* carries a tool-call fragment, while the fragments of that delta are in the
\* accumulator, whose message is appended to the history and dispatched.
C18_FragmentsNotShown ==
    [][/\ (stream.pc = "folded" /\ stream'.pc = "scan") =>
             LET ds == DeltasOf(stream.cur)
             IN  /\ (\A i \in 1..Len(ds) : Len(ds[i].ToolCalls) >= 1) =>
                        stream'.stdout = stream.stdout
                 /\ stream'.stdout = stream.stdout \o VisibleText(ds)
                 /\ \A i \in 1..Len(ds) : \A j \in 1..Len(ds[i].ToolCalls) :
                        ds[i].ToolCalls[j].Index \in DOMAIN stream.acc.toolCalls
                 /\ stream'.acc = stream.acc
       /\ (stream.pc = "returned" /\ stream'.pc \in {"done", "dispatch"}) =>
             LET fs == FragmentsOf(DeltasOf(Folded))
                 m == stream'.history[Len(stream'.history)]
             IN  /\ Len(stream'.history) = Len(stream.history) + 1
                 /\ m = Message(stream.acc)
                 /\ Len(m.ToolCalls) = Cardinality({fs[i].Index : i \in 1..Len(fs)})
                 /\ stream'.dispatch = m.ToolCalls
                 /\ stream'.pc = "dispatch" <=> fs # <<>>]_vars

\* a delta with the content "a" and the first fragment of a call: nothing was
\* printed and the call is dispatched
C18_Witness ==
    /\ stream.pc = "dispatch"
    /\ \E i \in 1..Len(Folded) :
           Folded[i] = ChatCompletionChunk(<<ChunkChoice(MessageDelta("", "a", <<StartFragment(0)>>))>>)
    /\ stream.stdout = ""
    /\ Len(stream.dispatch) = 1
    /\ stream.dispatch[1].ID = "call_0"
    /\ stream.history[Len(stream.history)].ToolCalls = stream.dispatch

\* the lines read so far that decoded into a chunk
DecodedLines ==
    {k \in 1..stream.n :
        /\ ~IsEmptyLine(stream.body[k]) /\ IsDataLine(stream.body[k])
        /\ Unmarshals(DataOf(stream.body[k]))}

\* C19 as stated -- for every decoded delta the caller's callback is invoked
\* before the delta is folded into the accumulator.
C19_CallbackBeforeFold ==
    \A i \in 1..Len(stream.order) :
        stream.order[i].op = "Add" =>
            \E j \in 1..(i - 1) : stream.order[j] = [op |-> "callback", k |-> stream.order[i].k]

\* C19 -- for every decoded delta ChatCompletionStream first folds the delta
\* into the accumulator and then invokes the caller's callback with it, once
\* each, before the next line is read.
C19_FoldBeforeCallback ==
    LET ord == stream.order
    IN  /\ \A i \in 1..Len(ord) :
              ord[i].op = "callback" =>
                  i > 1 /\ ord[i - 1] = [op |-> "Add", k |-> ord[i].k]
        /\ \A i \in 1..Len(ord) :
              ord[i].op = "Add" =>
                  IF i = Len(ord) THEN stream.pc = "folded"
                  ELSE ord[i + 1] = [op |-> "callback", k |-> ord[i].k]
        /\ \A i, j \in 1..Len(ord) : ord[i] = ord[j] => i = j
        /\ {ord[i].k : i \in 1..Len(ord)} = DecodedLines
        /\ stream.pc = "folded" => ord # <<>> /\ ord[Len(ord)].op = "Add"

\* three chunks, each folded and then handed to the callback
C19_Witness ==
    /\ stream.pc = "returned"
    /\ stream.order = <<[op |-> "Add", k |-> 1], [op |-> "callback", k |-> 1],
                        [op |-> "Add", k |-> 2], [op |-> "callback", k |-> 2],
                        [op |-> "Add", k |-> 3], [op |-> "callback", k |-> 3]>>
    /\ stream.msg # <<>>

\* ParseSSEStream is about to read a "data: " line that does not decode
AtBadFrame ==
    /\ Scanning
    /\ ~IsEmptyLine(NextLine) /\ IsDataLine(NextLine)
    /\ ~IsDone(DataOf(NextLine)) /\ ~Unmarshals(DataOf(NextLine))

\* the number of callback invocations for line k
CallbacksFor(k) ==
    Cardinality({i \in 1..Len(stream.order) : stream.order[i] = [op |-> "callback", k |-> k]})

\* C20 -- a data record that fails to decode: ParseSSEStream stops there with
\* an error, the callback is invoked neither for that record nor for a later
\* one, ChatCompletionStream returns no message although earlier deltas were
\* accumulated, and the callback was invoked exactly once for each record
\* decoded before the failure.
C20_DecodeFailureAborts ==
    /\ [](stream.err = FrameFailed =>
            /\ stream.pc \in {"returned", "failed"}
            /\ stream.msg = <<>> /\ stream.history = <<>> /\ stream.dispatch = <<>>
            /\ ~Unmarshals(DataOf(stream.body[stream.n]))
            /\ \A k \in 1..Len(stream.body) :
                  CallbacksFor(k) = IF k \in DecodedLines THEN 1 ELSE 0
            /\ \A k \in stream.n..Len(stream.body) : CallbacksFor(k) = 0)
    /\ [][/\ AtBadFrame =>
                /\ stream'.pc = "returned"
                /\ stream'.err = FrameFailed
                /\ Contains(stream'.err, "failed to parse SSE chunk")
                /\ stream'.msg = <<>>
                /\ stream'.order = stream.order
                /\ stream'.stdout = stream.stdout
          /\ stream.err # "" =>
                /\ stream'.order = stream.order
                /\ stream'.n = stream.n
                /\ stream'.acc = stream.acc
                /\ stream'.pc = "failed"
                /\ HasPrefix(stream'.sendErr, "LLM request failed: ")]_vars

\* a delta with text, then a frame that does not decode, then a chunk that is
\* never read: one callback, text accumulated, no message
C20_Witness ==
    /\ stream.pc = "failed"
    /\ stream.err = FrameFailed
    /\ stream.n = 2 /\ Len(stream.body) = 3
    /\ stream.body[3] \in {DataLine(c) : c \in Chunks}
    /\ stream.order = <<[op |-> "Add", k |-> 1], [op |-> "callback", k |-> 1]>>
    /\ stream.acc.content = "a"
    /\ stream.stdout = "a"
    /\ stream.msg = <<>> /\ stream.history = <<>>

\* the names registered so far, in the order of the successful calls
RegisteredNames == [i \in 1..Len(registry.registered) |-> registry.registered[i].name]

\* C21 -- after any sequence of Register calls the registry holds each name
\* once, Definitions() lists the registered tools in registration order, Get
\* of an unregistered name returns nil, and a Register call with a name
\* already registered panics and leaves the tool map and the order list as
\* they were.
C21_RegistryUnique ==
    /\ [](LET r == registry.r
          IN  /\ \A i, j \in 1..Len(r.order) : r.order[i] = r.order[j] => i = j
              /\ DOMAIN r.tools = {r.order[i] : i \in 1..Len(r.order)}
              /\ r.order = RegisteredNames
              /\ Definitions(r) = [i \in 1..Len(registry.registered) |->
                                       ToolDef(registry.registered[i])]
              /\ \A name \in GetNames :
                    RegistryGet(r, name) =
                        IF \E i \in 1..Len(registry.registered) :
                               registry.registered[i].name = name
                        THEN <<registry.registered[
                                 CHOOSE i \in 1..Len(registry.registered) :
                                     registry.registered[i].name = name]>>
                        ELSE <<>>)
    /\ [][registry'.calls # registry.calls =>
             LET t == registry'.last.arg[1]
             IN  IF \E i \in 1..Len(registry.registered) : registry.registered[i].name = t.name
                 THEN /\ registry'.panic = "tool already registered: " \o t.name
                      /\ registry'.r.tools = registry.r.tools
                      /\ registry'.r.order = registry.r.order
                 ELSE /\ registry'.panic = ""
                      /\ registry'.r.order = Append(registry.r.order, t.name)
                      /\ registry'.r.tools[t.name] = t]_vars

\* tool_a and tool_b registered, then a second tool named tool_a refused
C21_Witness ==
    /\ registry.panic = "tool already registered: tool_a"
    /\ registry.r.order = <<"tool_a", "tool_b">>
    /\ registry.last.op = "Register"
    /\ registry.last.arg[1] # registry.r.tools["tool_a"]
    /\ Definitions(registry.r)[2].Function.Name = "tool_b"

\* the fragments of index idx, in arrival order
FragmentsAt(fs, idx) == SelectSeq(fs, LAMBDA f : f.Index = idx)

\* the last non-empty type a fragment of index idx carried
RECURSIVE LastType(_, _, _)
LastType(fs, idx, ty) ==
    IF fs = <<>> THEN ty
    ELSE LastType(Tail(fs), idx,
                  IF Head(fs).Index = idx /\ Head(fs).Type # "" THEN Head(fs).Type ELSE ty)

\* the name fragments of index idx, concatenated in arrival order
RECURSIVE NameOf(_, _)
NameOf(fs, idx) ==
    IF fs = <<>> THEN ""
    ELSE (IF Head(fs).Index = idx THEN Head(fs).Function.Name ELSE "") \o NameOf(Tail(fs), idx)

\* the last non-empty role of a sequence of deltas
RECURSIVE LastRole(_, _)
LastRole(ds, role) ==
    IF ds = <<>> THEN role
    ELSE LastRole(Tail(ds), IF Head(ds).Role # "" THEN Head(ds).Role ELSE role)

\* C29 as stated -- the id and type of a merged tool call are those of the
\* first fragment seen for its index, whatever later fragments carry; the name
\* is the name fragments appended; the role is the last non-empty role.
C29_FirstFragmentEstablishes ==
    LET fs == FragmentsOf(DeltasOf(Folded))
        seen == Ascending({fs[i].Index : i \in 1..Len(fs)})
        m == Message(stream.acc)
    IN  /\ \A k \in 1..Len(seen) :
              /\ m.ToolCalls[k].ID = FragmentsAt(fs, seen[k])[1].ID
              /\ m.ToolCalls[k].Type = FragmentsAt(fs, seen[k])[1].Type
              /\ m.ToolCalls[k].Function.Name = NameOf(fs, seen[k])
        /\ m.Role = LastRole(DeltasOf(Folded), "")

\* C29 -- the id and the type of a merged tool call are the last non-empty id
\* and the last non-empty type among the fragments of its index (those of the
\* first fragment when no later one carries any); the name is the name
\* fragments appended in arrival order; the role is the last non-empty role.
C29_LastNonEmptyEstablishes ==
    LET fs == FragmentsOf(DeltasOf(Folded))
        seen == Ascending({fs[i].Index : i \in 1..Len(fs)})
        m == Message(stream.acc)
    IN  /\ Len(m.ToolCalls) = Len(seen)
        /\ \A k \in 1..Len(seen) :
              /\ m.ToolCalls[k].ID = LastID(fs, seen[k], "")
              /\ m.ToolCalls[k].Type = LastType(fs, seen[k], "")
              /\ m.ToolCalls[k].Function.Name = NameOf(fs, seen[k])
        /\ m.Role = LastRole(DeltasOf(Folded), "")

\* the call of index 0 opened as call_0/function/f and then given call_9/tool/g,
\* in a message whose role was set twice
C29_Witness ==
    LET fs == FragmentsOf(DeltasOf(Folded))
    IN  /\ stream.pc = "returned" /\ stream.msg # <<>>
        /\ fs = <<StartFragment(0), OtherFragment>>
        /\ stream.msg[1].ToolCalls[1].ID = "call_9"
        /\ stream.msg[1].ToolCalls[1].Type = "tool"
        /\ stream.msg[1].ToolCalls[1].Function.Name = "fg"
        /\ stream.msg[1].Role = "user"

\* C30 -- Message() cleans the accumulated content exactly when a tool call
\* was accumulated: the sentinel tokens are removed, the rest is trimmed, and
\* the result is "" when what is left holds a "{" and ends in "}" (a JSON
\* object, with or without text before it); without tool calls the content is
\* returned as accumulated.
C30_ContentPolicy ==
    LET ds == DeltasOf(Folded)
        c == ConcatContent(ds)
        left == TrimSpace(StripTokens(c, knownSpecialTokens))
        m == Message(stream.acc)
    IN  /\ stream.acc.content = c
        /\ FragmentsOf(ds) = <<>> => m.Content = c /\ m.ToolCalls = <<>>
        /\ FragmentsOf(ds) # <<>> =>
              /\ m.ToolCalls # <<>>
              /\ m.Content = IF Contains(left, "{") /\ HasSuffix(left, "}") THEN "" ELSE left
              /\ m.Content # "" =>
                    /\ ~IsSpace(SubSeq(m.Content, 1, 1))
                    /\ ~IsSpace(SubSeq(m.Content, Len(m.Content), Len(m.Content)))

\* a blank, a sentinel token and "a" accumulated next to a tool call: "a" is left
C30_Witness ==
    /\ stream.pc = "returned" /\ stream.msg # <<>>
    /\ stream.acc.content = " <|im_end|>a"
    /\ Len(stream.msg[1].ToolCalls) = 1
    /\ stream.msg[1].Content = "a"

\* "a{}" accumulated next to a tool call: the content is dropped
C30_WitnessJSON ==
    /\ stream.pc = "returned" /\ stream.msg # <<>>
    /\ stream.acc.content = "a{}"
    /\ Len(stream.msg[1].ToolCalls) = 1
    /\ stream.msg[1].Content = ""

\* the result is one of the outcomes of a child that was started
ChildOutcome(sp) ==
    \/ sp.result = sp.outputBuf
    \/ sp.result = NoOutputResult
    \/ HasPrefix(sp.result, "Sub-agent error: ")
    \/ sp.result = SubAgentCancelledResult

\* C22: Execute always comes back to the parent with a text and a nil error.
\* Once the child's goroutine has ended, panic included, its one result waits
\* on the channel and the select can take it; once the context is cancelled
\* the select can return; the text returned for a child that was started is
\* the child's captured output, the no-output notice, a "Sub-agent error" text
\* or the "Sub-agent cancelled" text; the parent appends that text as the
\* tool message, never a tool error.
C22_DefiniteOutcome ==
    /\ spawn.child.pc = "done" => spawn.pc \in {"select", "returned", "appended"}
    /\ spawn.child.pc = "done" /\ spawn.pc = "select" => Len(spawn.ch) = 1
    /\ spawn.pc = "select" /\ spawn.ch # <<>> => ENABLED SelectResult
    /\ spawn.pc = "select" /\ spawn.cancelled => ENABLED SelectCancelled
    /\ spawn.pc \in {"returned", "appended"} =>
          /\ spawn.err = "nil"
          /\ spawn.result # ""
          /\ spawn.child.pc # "none" => ChildOutcome(spawn)
    /\ spawn.pc = "appended" =>
          spawn.parent.history = <<ToolMessage(SpawnCall, spawn.result)>>

\* the child panicked and the parent holds the panic as a "Sub-agent error" text
C22_Witness ==
    /\ spawn.pc = "appended"
    /\ spawn.result = SubAgentErrorResult(PanicErr)
    /\ spawn.err = "nil"

\* C23: a child made by the spawn tool holds the permission handler its parent
\* holds at the time of the spawn, also when the front end has replaced the
\* root agent's handler by the bridge's.
C23_ChildSharesPermission ==
    spawn.child.pc # "none" => spawn.child.permission = spawn.parent.permission

\* the events of kind t delivered on the bridge of the spawning agent
BridgePositions(t) ==
    {i \in 1..Len(spawn.bridge.events) : spawn.bridge.events[i].type = t}

\* C26: when the spawn tool ran inside an interactive turn and its child came
\* to an end, the bridge has delivered a SubAgentSpawnMsg carrying the task
\* preview and, after it, a SubAgentDoneMsg.
C26_SpawnEventsOnBridge ==
    (spawn.mode = "tui" /\ spawn.pc = "appended" /\ spawn.child.pc # "none") =>
        \E i \in BridgePositions("SubAgentSpawnMsg"), j \in BridgePositions("SubAgentDoneMsg") :
            /\ i < j
            /\ spawn.bridge.events[i] = SubAgentSpawnMsg(TaskPreview(spawn.params.Task))

\* a step of the running child
ChildStep == spawn.child.pc # "none" /\ spawn'.child # spawn.child

NothingReceived == Len(events) = nEvents

\* C25: when a turn has returned, every ToolStartMsg its goroutine delivered on
\* the bridge is followed on the bridge by a tool-finished event (ToolResultMsg)
\* of the same turn for the same tool. Stated on the runs in which the front
\* end has not yet received anything, where the channel shows all of it.
C25_ToolStartHasResult ==
    \A g \in Turns :
        (gor[g].pc \in {"returned", "done"} /\ NothingReceived) =>
            \A i \in 1..Len(events) :
                (events[i].turn = g /\ events[i].ev.type = "ToolStartMsg") =>
                    \E j \in (i + 1)..Len(events) :
                        /\ events[j].turn = g
                        /\ events[j].ev.type = "ToolResultMsg"
                        /\ events[j].ev.Name = events[i].ev.Name

\* the request that answers on channel ch is still on its way to the operator
\* or in front of the operator
Pending(ch) ==
    \/ \E i \in 1..Len(events) :
          events[i].ev.type = "PermissionRequestMsg" /\ events[i].ev.Response = ch
    \/ \E m \in msgs : m.ev.type = "PermissionRequestMsg" /\ m.ev.Response = ch
    \/ app.permReq # NoReq /\ app.permReq.Response = ch

\* C27: pending permission requests do not collide: a request that has no
\* decision on its acknowledgment channel yet is still on its way to the
\* operator or the one the front end holds, so that a decision can still be
\* written for it, and no channel is ever written more than once.
C27_RequestsDoNotCollide ==
    /\ \A g \in Turns :
          (gor[g].pc = "check" /\ respCh[gor[g].ch] = <<>>) => Pending(gor[g].ch)
    /\ \A ch \in 1..Len(log.written) : Len(log.written[ch]) <= 1

\* the tool-call rounds of the one turn: the responses with tool calls
ToolCallRounds ==
    Len(SelectSeq(agent.history,
                  LAMBDA m : m.Role = "assistant" /\ m.ToolCalls # <<>>))

\* the AgentDoneMsg of turn g waiting to be handled
DoneMsgs(g) == {m \in msgs : m.ev.type = "AgentDoneMsg" /\ m.ev.turn = g}

\* the turn was started and has not been brought to its end
C28_Started(g) == g \in log.started

\* the AgentDoneMsg of the turn was handled
C28_Finished(g) ==
    /\ gor[g].pc = "done"
    /\ g \in log.doneHandled

\* C28: under fairness a started turn terminates unless the program is quit:
\* Send returns, one AgentDoneMsg is delivered for the turn and never a second,
\* handling it clears agentBusy and enables the input; when Send has returned
\* after k responses with tool calls it has issued k + 1 requests.
C28_TurnTerminates ==
    /\ \A g \in Turns : C28_Started(g) ~> (C28_Finished(g) \/ app.quit)
    /\ [](\A g \in Turns :
            /\ Cardinality(DoneMsgs(g)) <= 1
            /\ g \in log.doneHandled => DoneMsgs(g) = {}
            /\ DoneMsgs(g) # {} => gor[g].pc = "done"
            /\ gor[g].pc \in {"returned", "done"} => gor[g].round = ToolCallRounds + 1)
    /\ [][\A m \in msgs : UpdateAgentDoneMsg(m) =>
              ~app'.agentBusy /\ ~input'.disabled]_vars

\* a turn with one tool-call round, which waited for the operator,
\* ended after two requests and its AgentDoneMsg was handled
C28_Witness ==
    /\ C28_Finished(1)
    /\ ToolCallRounds = 1
    /\ gor[1].round = 2
    /\ log.checks # {}
    /\ ~app.agentBusy
    /\ ~input.disabled

\* the positions of the newlines among the first n bytes of s
NewlinesIn(s, n) == {i \in 1..n : SubSeq(s, i, i) = "\n"}

\* the newline that ends the k-th line (0 for k = 0)
RECURSIVE NthNewline(_, _, _)
NthNewline(s, n, k) ==
    IF k = 0 THEN 0
    ELSE LET prev == NthNewline(s, n, k - 1)
         IN  CHOOSE i \in NewlinesIn(s, n) :
                 /\ i > prev
                 /\ \A j \in NewlinesIn(s, n) : j > prev => i <= j

\* the k-th complete line among the first n bytes of s
CompleteLine(s, n, k) ==
    SubSeq(s, NthNewline(s, n, k - 1) + 1, NthNewline(s, n, k) - 1)

\* the events of the first k complete lines, in line order
RECURSIVE LineEvents(_, _, _)
LineEvents(s, n, k) ==
    IF k = 0 THEN <<>>
    ELSE LineEvents(s, n, k - 1) \o parseLine(CompleteLine(s, n, k))

\* C31: however the byte stream is cut into Writes, after the first n bytes the
\* events emitted are those of the complete lines among these bytes, in line
\* order and at most one per line, and the buffer holds the bytes after the
\* last newline: nothing is emitted for a line whose newline has not arrived.
C31_SplitInvariant ==
    writer.pc = "open" =>
        LET n == writer.pos
            k == Cardinality(NewlinesIn(writer.text, n))
        IN  /\ writer.events = LineEvents(writer.text, n, k)
            /\ writer.buf = SubSeq(writer.text, NthNewline(writer.text, n, k) + 1, n)
            /\ \A j \in 1..k : Len(parseLine(CompleteLine(writer.text, n, j))) <= 1

\* a stream written in five pieces: the one event of its three complete lines
\* is out and the unfinished last line waits in the buffer
C31_Witness ==
    /\ writer.pc = "open"
    /\ writer.text = "[tool] x: permission denied\n\n [tool] c \n[too"
    /\ writer.pos = Len(writer.text)
    /\ writer.writes = 5
    /\ writer.events = <<ToolStartMsg("c")>>
    /\ writer.buf = "[too"

\* the keys that are neither allow, deny nor quit
OtherKeys == Keys \ {"y", "n", "ctrl+c"}

\* C32: while a permission request is pending, App.Update on a key other than
\* allow, deny and quit changes nothing: permReq and the focus stay, the input
\* box, the chat and the sidebar stay, nothing is written to an acknowledgment
\* channel and no message or command is produced.
C32_OtherKeysIgnored ==
    [][\A k \in OtherKeys :
          (app.permReq # NoReq /\ UpdateKeyMsg(k)) =>
              UNCHANGED <<app, input, sidebar, chat, respCh, msgs, wfe, nSent, log>>]_vars

\* a request is pending with no decision yet and Tab can be pressed
C32_Witness ==
    /\ app.permReq # NoReq
    /\ respCh[app.permReq.Response] = <<>>
    /\ ENABLED UpdateKeyMsg("tab")

\* h is a prefix of k
IsPrefix(h, k) == Len(h) <= Len(k) /\ SubSeq(k, 1, Len(h)) = h

\* the history holds a system message
HasSystemMessage == \E i \in 1..Len(agent.history) : agent.history[i].Role = "system"

NoSendRunning == \A g \in Turns : ~InSend(g)

EarlyError(g) ==
    /\ gor[g].pc = "returned"
    /\ \/ gor[g].round = 0 /\ gor[g].err = "agent cancelled: " \o CtxErr
       \/ /\ gor[g].round = 1
          /\ \E e \in StreamErrors : gor[g].err = "LLM request failed: " \o e

\* the histories a new agent starts with, each followed by n user messages
AfterUserMessages(n) ==
    {h \o [k \in 1..n |-> UserMessage("msg")] : h \in {<<>>, <<SystemMessage>>}}

C36_AckWrittenOnce ==
    /\ \A ch \in 1..Len(respCh) :
          /\ Len(respCh[ch]) <= 1
          /\ Len(log.written[ch]) <= 1
          /\ Len(respCh[ch]) <= Len(log.written[ch])
    /\ app.permReq # NoReq =>
          /\ app.permReq.Response \in 1..Len(respCh)
          /\ respCh[app.permReq.Response] = <<>>
          /\ log.written[app.permReq.Response] = <<>>

\* two prompts were answered, each on its own channel, and no prompt is up
C36_Witness ==
    /\ app.permReq = NoReq
    /\ Len(respCh) >= 2
    /\ Len(log.written[1]) = 1
    /\ Len(log.written[2]) = 1
    /\ log.written[1][1].key = "y"
    /\ log.written[2][1].key = "n"

\* the three busy flags of the front end
BusyFlags == <<app.agentBusy, input.disabled, sidebar.agentBusy>>

\* C37: App.agentBusy, the input box's disabled flag and the sidebar's busy
\* flag are equal in every state; handling a SendMsg leaves all three true,
\* handling an AgentDoneMsg leaves all three false, and no other step of
\* App.Update changes any of them.
C37_BusyFlagsAgree ==
    /\ [](input.disabled = app.agentBusy /\ sidebar.agentBusy = app.agentBusy)
    /\ [][(\E m \in msgs : UpdateSendMsg(m)) => BusyFlags' = <<TRUE, TRUE, TRUE>>]_vars
    /\ [][(\E m \in msgs : UpdateAgentDoneMsg(m)) =>
              BusyFlags' = <<FALSE, FALSE, FALSE>>]_vars
    /\ [][BusyFlags' # BusyFlags =>
              \/ \E m \in msgs : UpdateSendMsg(m)
              \/ \E m \in msgs : UpdateAgentDoneMsg(m)]_vars

\* a second message was sent after the first turn was reported done: the flags
\* went true, false and true again
C37_Witness ==
    /\ log.doneHandled = {1}
    /\ log.started = {1, 2}
    /\ BusyFlags = <<TRUE, TRUE, TRUE>>
    /\ gor[1].pc = "done"

\* the positions of the events one turn can write to the bridge channel: its
\* content deltas, a start line and a permission request per tool call, and
\* what a request writes besides (the newline after the answer)
EventSeqs == 1..(MaxTokens + 2 * MaxCalls + MaxRounds)

\* event n was written to the channel and is neither in the channel nor on its
\* way to App.Update: App.Update has handled it
Handled(n) ==
    /\ n <= nEvents
    /\ \A i \in 1..Len(events) : events[i].seq # n
    /\ \A m \in Delivering : m.seq # n

\* C38: while the program has not quit a WaitForEvent command is outstanding
\* (blocked on the channel, or carrying an event App.Update has not handled
\* yet), so under fairness, unless the program is quit, the run reaches a point
\* from which every event written to the bridge channel has been handled by
\* App.Update, and a handled event never comes back.
C38_NoEventStranded ==
    /\ [](Running => wfe + Cardinality(Delivering) >= 1)
    /\ [](nEvents \in EventSeqs \cup {0})
    /\ <>[](app.quit \/ \A n \in 1..nEvents : Handled(n))
    /\ [][\A n \in EventSeqs : Handled(n) => Handled(n)']_vars

\* a turn wrote four events and every one was handled, readers still waiting
C38_Witness ==
    /\ Running
    /\ nEvents >= 4
    /\ \A n \in 1..nEvents : Handled(n)
    /\ wfe >= 1
    /\ 1 \in log.doneHandled

\* the lines of the body that hold the terminator record
Terminators ==
    {k \in 1..Len(stream.body) :
        IsDataLine(stream.body[k]) /\ IsDone(DataOf(stream.body[k]))}

\* the number of lines before the end of the stream: the first terminator
\* record, or the end of the body
StreamEnd ==
    IF Terminators = {} THEN Len(stream.body)
    ELSE (CHOOSE k \in Terminators : \A j \in Terminators : k <= j) - 1

\* the accumulator after the chunks of a sequence of lines
RECURSIVE FoldLines(_, _)
FoldLines(lines, acc) ==
    IF lines = <<>> THEN acc
    ELSE FoldLines(Tail(lines),
                   IF IsDataLine(Head(lines)) /\ Unmarshals(DataOf(Head(lines)))
                   THEN Add(acc, DataOf(Head(lines)).json[1])
                   ELSE acc)

\* C39: a body that ends without the terminator record gives what the same
\* lines followed by the terminator give: no error, and the message accumulated
\* from the deltas before the end; a line after the terminator is never read.
C39_EndOfInputIsDone ==
    /\ stream.n <= StreamEnd + 1
    /\ Terminators = {} => stream.n <= StreamEnd
    /\ \A i \in 1..Len(stream.order) : stream.order[i].k <= StreamEnd
    /\ (stream.pc = "returned" /\ stream.err = "") =>
          /\ stream.n = IF Terminators = {} THEN StreamEnd ELSE StreamEnd + 1
          /\ stream.msg =
                <<Message(FoldLines(SubSeq(stream.body, 1, StreamEnd), NewDeltaAccumulator))>>
    /\ (stream.pc = "returned" /\ stream.n = Len(stream.body) /\ Terminators = {}
            /\ ~stream.readErr /\ ~(stream.n > 0 /\ stream.err = FrameFailed)) =>
          stream.err = ""

\* a body of three text deltas and no terminator: the message is returned
\* without an error
C39_Witness ==
    /\ stream.pc = "returned"
    /\ stream.err = ""
    /\ Terminators = {}
    /\ Len(stream.body) = 3
    /\ ~stream.readErr
    /\ stream.msg[1].Content = "aaa"

\* a terminator after one delta, then a record that is never decoded
C39_WitnessAfterDone ==
    /\ stream.pc = "returned"
    /\ stream.err = ""
    /\ Len(stream.body) = 3
    /\ stream.n = 2
    /\ Terminators = {2}
    /\ stream.body[3] = BadLine
    /\ stream.msg[1].Content = "a"

\* C40: what Agent.loop has written to its display writer, taken as one
\* string, contains none of the special tokens, however the content of the
\* response is cut into deltas.
C40_NoSentinelShown ==
    \A i \in 1..Len(specialTokens) : ~Contains(stream.stdout, specialTokens[i])

\* a sentinel that arrived in two deltas is on the display
C40_SplitSentinelShown ==
    /\ stream.pc = "done"
    /\ Len(stream.body) = 2
    /\ stream.stdout = "<|im_end|>\n"

====
